---- MODULE Spec2Model ----
(***************************************************************************)
(* The pipeline runtime of arduino.app_internal.pipeline: the Pipeline     *)
(* supervisor (pipeline.py), the stage tasks (task.py) and the stage       *)
(* adapters (adapter.py), as a state machine.                              *)
(*                                                                         *)
(* Threads of the program and how they appear here:                        *)
(*   - the thread that calls the Pipeline API        (variable caller)     *)
(*   - the event-loop thread started by start()      (variable thread)     *)
(*     which runs, one step at a time, the coroutine _async_run_pipeline   *)
(*     (main), the coroutine _async_stop_pipeline (stop_co) and one task   *)
(*     per stage (task[i]); a step of a coroutine runs from one            *)
(*     suspension point to the next and is one action                      *)
(*   - the producer thread of a blocking source      (producer_thread)     *)
(*   - executor threads that still run a synchronous user call whose       *)
(*     awaiting task was cancelled                   (orphans[i])          *)
(*                                                                         *)
(* Timeouts (60 s wait_for, 70 s result, 10 s join) are actions that may   *)
(* fire when the awaited event has not happened and no step that runs no   *)
(* user code is enabled: such steps take no time to speak of.              *)
(*                                                                         *)
(* task.py logs through the name `log`, but binds `logger` (line 12).      *)
(* log_bound tells whether `log` resolves when task.py runs: FALSE is the  *)
(* module as shipped (every log call raises NameError), TRUE is the module *)
(* with the name bound.  Every run is modelled for both.                   *)
(***************************************************************************)
EXTENDS Integers, Sequences, FiniteSets, TLC

\* ---- bounds of the model ----
MaxSteps == 3        \* longest stage list that add_* builds
MaxItems == 3        \* items the source holds, in the runs nobody stops
MaxStopItems == 2    \* items the source holds, in the runs stop() may end
MaxRuns == 2         \* start() calls that start a run
MaxSyncRestart == 1  \* synchronous stages of a pipeline that is started again
MaxWindow == 3       \* largest window_size of a SlidingWindowBuffer
MaxCapacity == 5     \* largest capacity of a SlidingWindowBuffer
MaxPushed == 7       \* items pushed into a SlidingWindowBuffer in all
MaxCalls == 2        \* user threads that make one call() or provide() each
MaxMethods == 2      \* method names given to provide()
MaxDrops == 1        \* times the peer goes away
MaxRequests == 1     \* requests the peer sends
MaxNotes == 1        \* notifications the peer sends
MaxRecvErrors == 2   \* errors of recv that are counted
MaxBricks == 2       \* bricks the AppController is given
MaxAppThreads == 2   \* threads that call the AppController
MaxInterval == 2     \* longest minimum interval of an AsyncRateLimiter, in ticks
MaxTime == 6         \* ticks of the monotonic clock
MaxWaiters == 2      \* tasks that call wait() on one AsyncRateLimiter
MaxWire == 1         \* frames sent by the peer and not yet read

\* ---- program constants ----
QueueSize == 1       \* asyncio.Queue(queue_size), queue_size defaults to 1
HandoffSize == 1     \* queue.Queue(1) of the blocking source adapter
SHUTDOWN == 0        \* the _SHUTDOWN sentinel; items are positive

Stages == 1..MaxSteps

VARIABLES
    log_bound,        \* the name `log` resolves in task.py
    steps,            \* Pipeline._steps, as the sequence of stage kinds
    is_sync,          \* is_sync[i]: the brick's core method is a plain function
    running,          \* Pipeline._running
    loop,             \* Pipeline._loop is not None
    loop_thread,      \* Pipeline._loop_thread is not None
    caller,           \* where the API-calling thread is
    raised,           \* what the last API call raised ("none": it returned)
    runs_left,        \* runs the caller may still start
    thread,           \* the event-loop thread
    stop_req,         \* loop.stop was handed to call_soon_threadsafe
    cancel_req,       \* _pipeline_future.cancel was handed to call_soon_threadsafe
    main,             \* _async_run_pipeline: its suspension point
    co_idx,           \* the step _async_run_pipeline is starting or stopping
    pipeline_future,  \* Pipeline._pipeline_future is not None
    gather,           \* the gather future of this run exists
    stop_co,          \* _async_stop_pipeline: its suspension point
    stopped,          \* stages whose adapter.stop() was entered in this run
    task,             \* task[i]: suspension point of stage i's _run
    item,             \* item[i]: the datum stage i's task holds
    output_queue,     \* output_queue[i]
    orphans,          \* orphans[i]: executor threads left behind by a cancel
    shut,             \* shut[i]: sentinels task i put on its output, this run
    late,             \* late[i]: task i put a value after its sentinel
    stop_event,       \* AsyncBlockingSourceAdapter._stop_event
    data_queue,       \* AsyncBlockingSourceAdapter._data_queue
    producer_thread,  \* the thread running _producer_loop
    prod_item,        \* the datum _producer_loop holds
    source_len,       \* the number of items the user's source holds
    next_item,        \* the next item the user's produce() returns
    produced,         \* items produce() returned in this run
    consumed,         \* items passed to consume() in this run
    dropped,          \* dropped[i]: inputs for which stage i's process() returned None
    user_raised,      \* stages whose user start/produce/process/consume raised in this run
    \* ---- SlidingWindowBuffer (app_utils/slidingwindowbuffer.py) ----
    window_size,      \* SlidingWindowBuffer.window_size
    slide_amount,     \* SlidingWindowBuffer.slide_amount
    capacity,         \* SlidingWindowBuffer.capacity
    buffer,           \* _buffer: the ring, cell k of 0..capacity-1 (0: never written)
    dtype,            \* _dtype and item shape of _buffer ("none": _buffer is None)
    write_index,      \* _write_index
    read_index,       \* _read_index
    data_count,       \* _data_count
    new_data_count,   \* _new_data_count
    pull_state,       \* the consumer: "idle", or "waiting" inside _condition.wait_for
    pull_timed,       \* the pending pull was given a timeout
    notified,         \* the waiting consumer was notified and has not yet run
    push_ret,         \* what the last push returned or raised
    pull_ret,         \* what the last pull returned: "window", "empty"
    window,           \* the window the last successful pull returned
    prev_window,      \* the window the successful pull before it returned
    chain,            \* successful pulls since the last flush, counted up to 2
    next_value,       \* the next item the producer pushes; items are 1, 2, ...
    next_msgid,       \* ClientServer.next_msgid, as <<high half, low half>>
    callbacks,        \* ClientServer.callbacks: the pairs <<msgid, call slot>>
    handlers,         \* ClientServer.handlers: handlers[m] (0: m is not a key)
    handlers_lock,    \* handlers_lock is held by register_methods_on_reconnect
    is_connected_flag,\* _is_connected_flag is set
    conn,             \* _conn: "none", "up", or "broken" (the peer has gone)
    reader,           \* _conn_manager: "read" (_read_loop), "sleep", "connect"
    wire,             \* frames the peer has sent and _read_loop has not read
    peer_reqs,        \* requests the peer holds: <<msgid, method>> (0: a user call)
    cancels,          \* the msgids of the "$/cancelRequest" notifications sent
    call_pc,          \* call_pc[c]: where the call of slot c is
    call_msgid,       \* call_msgid[c]: the msgid the call drew
    call_what,        \* call_what[c]: the method registered and the handler of provide
    resp_queue,       \* resp_queue[c]: "empty", or what a continuation has put
    call_out,         \* call_out[c]: "result", or the exception call() raised
    invoked,          \* invoked[c]: times on_result or on_error of the call ran
    in_time,          \* in_time[c]: a response was handled while the call waited
    conn_lost,        \* conn_lost[c]: the connection was not open all through the call
    rereg_waiting,    \* register_methods_on_reconnect threads not yet in the lock
    rereg_todo,       \* methods the thread in the lock has still to register
    to_offer,         \* the keys of handlers at the last reconnection
    offered,          \* methods "$/register"ed by that thread on this connection
    drops_left,       \* times the peer may still go away
    requests_left,    \* requests the peer may still send
    handler_sorts,    \* what the handlers given to provide() may do when called
    notes_left,       \* notifications the peer may still send
    peer_asks,        \* the methods the peer sends requests and notifications for
    recv_errors,      \* "Unexpected error in read loop" logged, up to MaxRecvErrors
    dispatched,       \* the last request or notification _handle_msg was given
    sent,             \* the response frames handed to the socket for it
    brick_sig,        \* brick_sig[b]: which method of brick b has a bad signature, if any
    brick_kind,       \* brick_kind[b]: the runnable method of b, "loop" or "execute"
    waiting_queue,    \* AppController._waiting_queue
    running_queue,    \* AppController._running_queue
    app_lock,         \* _app_lock: the thread that holds it (0: free)
    app_pc,           \* app_pc[t]: where thread t is inside the AppController
    app_brick,        \* app_brick[t]: the brick of its start_brick/stop_brick
    app_out,          \* app_out[t]: what its last call raised ("none": it returned)
    in_run,           \* in_run[t]: the call of t is run()
    to_stop,          \* the bricks the lock holder has still to stop
    stopping,         \* the brick whose worker the lock holder joins (0: none)
    worker,           \* worker[b]: the thread of _method_runner for brick b
    is_running,       \* is_running[b]: the Event brick_is_running of that thread is set
    execute_calls,    \* execute_calls[b]: calls of execute since b was started (up to 2)
    start_plan,       \* the waiting queue when _start_managed_bricks took the lock
    start_log,        \* the bricks _start was called for since, in order
    stop_plan,        \* the running queue when _stop_all_bricks took the lock
    stop_log,         \* the bricks _stop was called for since, in order
    min_interval,     \* AsyncRateLimiter._min_interval, in ticks
    last_call_time,   \* AsyncRateLimiter._last_call_time
    lim_lock,         \* AsyncRateLimiter._lock: the task that holds it (0: free)
    lim_pc,           \* lim_pc[k]: where task k is inside wait()
    wake_at,          \* wake_at[k]: when the sleep of task k is over
    now,              \* time.monotonic()
    completions       \* the times at which wait() returned, in order

apiVars  == <<steps, is_sync, running, loop, loop_thread, caller, raised, runs_left>>
loopVars == <<thread, stop_req, cancel_req, main, co_idx, pipeline_future, gather, stop_co, stopped>>
taskVars == <<task, item, output_queue, orphans, shut, late>>
srcVars  == <<stop_event, data_queue, producer_thread, prod_item>>
dataVars == <<source_len, next_item, produced, consumed, dropped, user_raised>>
bufVars  == <<window_size, slide_amount, capacity, buffer, dtype, write_index, read_index,
              data_count, new_data_count, pull_state, pull_timed, notified, push_ret,
              pull_ret, window, prev_window, chain, next_value>>
\* the state of the utilities of app_utils, which the pipeline does not touch
rpcVars  == <<next_msgid, callbacks, handlers, handlers_lock, is_connected_flag, conn,
              reader, wire, peer_reqs, cancels, call_pc, call_msgid, call_what, resp_queue,
              call_out, invoked, in_time, conn_lost, rereg_waiting, rereg_todo, to_offer,
              offered, drops_left, requests_left>>
appVars  == <<brick_sig, brick_kind, waiting_queue, running_queue, app_lock, app_pc,
              app_brick, app_out, in_run, to_stop, stopping, worker, is_running,
              execute_calls, start_plan, start_log, stop_plan, stop_log>>
limVars  == <<min_interval, last_call_time, lim_lock, lim_pc, wake_at, now, completions>>
\* the ClientServer as a server of the peer's requests
srvVars  == <<handler_sorts, notes_left, peer_asks, recv_errors, dispatched, sent>>
utilVars == <<bufVars, rpcVars, srvVars, appVars, limVars>>
vars == <<log_bound, apiVars, loopVars, taskVars, srcVars, dataVars, utilVars>>
pipeVars == <<log_bound, apiVars, loopVars, taskVars, srcVars, dataVars>>
\* what the SlidingWindowBuffer leaves alone, what the ClientServer does, what
\* the AppController does and what the AsyncRateLimiter does
notBufVars == <<pipeVars, rpcVars, srvVars, appVars, limVars>>
notRpcVars == <<pipeVars, bufVars, srvVars, appVars, limVars>>
notSrvVars == <<pipeVars, bufVars, appVars, limVars>>
notAppVars == <<pipeVars, bufVars, rpcVars, srvVars, limVars>>
notLimVars == <<pipeVars, bufVars, rpcVars, srvVars, appVars>>

\* ---- helpers ----
N == Len(steps)
Kind(i) == steps[i]
HasOutput(i) == i <= N /\ Kind(i) # "sink"
\* create_adapter: a synchronous produce gets the AsyncBlockingSourceAdapter
Blocking == N >= 1 /\ is_sync[1]
\* _run returned after its loop ended ("done"), after a user exception
\* ("failed"), or raised CancelledError ("cancelled")
TaskEnded(t) == t \in {"done", "failed", "cancelled"}
TaskPending(t) == t \notin {"none", "done", "failed", "cancelled"}
ThreadAlive == thread \in {"new", "run", "final"}
ProducerAlive == producer_thread \notin {"none", "dead"}
\* a queue that takes one item more than its maxsize
RoomWide(q) == Len(q) <= QueueSize
\* asyncio.Queue.full() is false: put does not suspend
Room(q) == Len(q) < QueueSize
HandoffRoom(q) == Len(q) < HandoffSize
\* the event loop runs callbacks and task steps
LoopRuns == thread \in {"run", "final"}

\* what the user's process() returns for x when it does not drop it
Process(x) == 2 * x

\* the state after Pipeline() and the construction of the bricks, but for
\* log_bound, steps, is_sync, runs_left and source_len
Constructed ==
    /\ running = FALSE
    /\ loop = FALSE
    /\ loop_thread = FALSE
    /\ caller = "idle"
    /\ raised = "none"
    /\ thread = "none"
    /\ stop_req = FALSE
    /\ cancel_req = FALSE
    /\ main = "none"
    /\ co_idx = 0
    /\ pipeline_future = FALSE
    /\ gather = FALSE
    /\ stop_co = "none"
    /\ stopped = {}
    /\ task = [i \in Stages |-> "none"]
    /\ item = [i \in Stages |-> 0]
    /\ output_queue = [i \in Stages |-> <<>>]
    /\ orphans = [i \in Stages |-> 0]
    /\ shut = [i \in Stages |-> 0]
    /\ late = [i \in Stages |-> FALSE]
    /\ stop_event = FALSE
    /\ data_queue = <<>>
    /\ producer_thread = "none"
    /\ prod_item = 0
    /\ next_item = 1
    /\ produced = <<>>
    /\ consumed = <<>>
    /\ dropped = [i \in Stages |-> {}]
    /\ user_raised = {}

\* ======================= Pipeline API (caller thread) =====================

\* Pipeline.add_source
add_source ==
    /\ caller = "idle"
    /\ \E s \in BOOLEAN :
        IF running
        THEN raised' = "RuntimeError" /\ UNCHANGED <<steps, is_sync>>
        ELSE IF steps # <<>>
        THEN raised' = "ValueError" /\ UNCHANGED <<steps, is_sync>>
        ELSE /\ steps' = Append(steps, "source")
             /\ is_sync' = [is_sync EXCEPT ![1] = s]
             /\ raised' = "none"
    /\ UNCHANGED <<running, loop, loop_thread, caller, runs_left>>
    /\ UNCHANGED <<log_bound, utilVars, loopVars, taskVars, srcVars, dataVars>>

\* Pipeline.add_processor
add_processor ==
    /\ caller = "idle"
    /\ \E s \in BOOLEAN :
        IF running
        THEN raised' = "RuntimeError" /\ UNCHANGED <<steps, is_sync>>
        ELSE IF steps = <<>> \/ steps[Len(steps)] = "sink"
        THEN raised' = "ValueError" /\ UNCHANGED <<steps, is_sync>>
        ELSE /\ Len(steps) < MaxSteps
             /\ steps' = Append(steps, "processor")
             /\ is_sync' = [is_sync EXCEPT ![Len(steps) + 1] = s]
             /\ raised' = "none"
    /\ UNCHANGED <<running, loop, loop_thread, caller, runs_left>>
    /\ UNCHANGED <<log_bound, utilVars, loopVars, taskVars, srcVars, dataVars>>

\* an add_sink that does not look at _running
add_sink_unguarded ==
    /\ caller = "idle"
    /\ \E s \in BOOLEAN :
        IF steps = <<>> \/ steps[Len(steps)] = "sink"
        THEN raised' = "ValueError" /\ UNCHANGED <<steps, is_sync>>
        ELSE /\ Len(steps) < MaxSteps
             /\ steps' = Append(steps, "sink")
             /\ is_sync' = [is_sync EXCEPT ![Len(steps) + 1] = s]
             /\ raised' = "none"
    /\ UNCHANGED <<running, loop, loop_thread, caller, runs_left>>
    /\ UNCHANGED <<log_bound, utilVars, loopVars, taskVars, srcVars, dataVars>>

\* Pipeline.add_sink
add_sink ==
    /\ caller = "idle"
    /\ \E s \in BOOLEAN :
        IF running
        THEN raised' = "RuntimeError" /\ UNCHANGED <<steps, is_sync>>
        ELSE IF steps = <<>> \/ steps[Len(steps)] = "sink"
        THEN raised' = "ValueError" /\ UNCHANGED <<steps, is_sync>>
        ELSE /\ Len(steps) < MaxSteps
             /\ steps' = Append(steps, "sink")
             /\ is_sync' = [is_sync EXCEPT ![Len(steps) + 1] = s]
             /\ raised' = "none"
    /\ UNCHANGED <<running, loop, loop_thread, caller, runs_left>>
    /\ UNCHANGED <<log_bound, utilVars, loopVars, taskVars, srcVars, dataVars>>


\* Pipeline.start.  The loop thread does nothing but create the loop before it
\* sets the ready event, so the 10 s wait for readiness always succeeds.
\* A later start() is modelled only after a run that left no thread and no
\* pending task behind.
start ==
    /\ caller = "idle"
    /\ IF running
       THEN /\ raised' = "none"
            /\ UNCHANGED <<loop_thread, caller, runs_left, thread, stop_req, cancel_req,
                           gather, stop_co, stopped, shut, late, dataVars>>
       ELSE IF Len(steps) < 2
       THEN /\ raised' = "ValueError"
            /\ UNCHANGED <<loop_thread, caller, runs_left, thread, stop_req, cancel_req,
                           gather, stop_co, stopped, shut, late, dataVars>>
       ELSE /\ runs_left > 0
            /\ ~ThreadAlive
            /\ \A i \in Stages : ~TaskPending(task[i])
            /\ raised' = "none"
            /\ runs_left' = runs_left - 1
            /\ thread' = "new"
            /\ loop_thread' = TRUE
            /\ caller' = "start_wait"
            /\ stop_req' = FALSE
            /\ cancel_req' = FALSE
            /\ gather' = FALSE
            /\ stop_co' = "none"
            /\ stopped' = {}
            /\ shut' = [i \in Stages |-> 0]
            /\ late' = [i \in Stages |-> FALSE]
            /\ produced' = <<>>
            /\ consumed' = <<>>
            /\ dropped' = [i \in Stages |-> {}]
            /\ user_raised' = {}
            /\ UNCHANGED <<source_len, next_item>>
    /\ UNCHANGED <<log_bound, utilVars, steps, is_sync, running, loop, main, co_idx,
                   pipeline_future, task, item, output_queue, orphans, srcVars>>

\* Pipeline.start, after loop_ready_event.wait returned True
start_return ==
    /\ caller = "start_wait"
    /\ thread # "new"
    /\ running' = TRUE
    /\ caller' = "idle"
    /\ UNCHANGED <<steps, is_sync, loop, loop_thread, raised, runs_left>>
    /\ UNCHANGED <<log_bound, utilVars, loopVars, taskVars, srcVars, dataVars>>

\* Pipeline.stop up to future.result(timeout=70.0)
stop ==
    /\ caller = "idle"
    /\ raised' = "none"
    /\ IF ~running \/ ~loop_thread \/ ~ThreadAlive \/ ~loop
       THEN UNCHANGED <<caller, stop_co>>
       ELSE caller' = "stop_wait" /\ stop_co' = "sched"
    /\ UNCHANGED <<steps, is_sync, running, loop, loop_thread, runs_left>>
    /\ UNCHANGED <<thread, stop_req, cancel_req, main, co_idx, pipeline_future, gather, stopped>>
    /\ UNCHANGED <<log_bound, utilVars, taskVars, srcVars, dataVars>>

\* Pipeline.stop: future.result returned (or raised the future's cancellation,
\* which stop() logs); loop.stop is scheduled when the loop is running
stop_result ==
    /\ caller = "stop_wait"
    /\ stop_co \in {"done", "skipped"}
    /\ caller' = "stop_join"
    /\ stop_req' = (loop /\ LoopRuns)
    /\ UNCHANGED <<steps, is_sync, running, loop, loop_thread, raised, runs_left>>
    /\ UNCHANGED <<thread, cancel_req, main, co_idx, pipeline_future, gather, stop_co, stopped>>
    /\ UNCHANGED <<log_bound, utilVars, taskVars, srcVars, dataVars>>

\* whether the gather future is done: every child ended, or one child ended
\* cancelled (gather without return_exceptions propagates the first exception)
GatherDone ==
    /\ gather
    /\ \/ \A i \in 1..N : TaskEnded(task[i])
       \/ \E i \in 1..N : task[i] = "cancelled"

\* ================= cancellation of a stage task (Task.cancel) =============
\* CancelledError is thrown at the await the task is suspended in; _run
\* re-raises it and its finally puts the sentinel, suspending again when the
\* output queue is full.  A task suspended in that finally just ends.
CancelPc(i) ==
    IF task[i] \in {"fin", "fin_err", "fin_c"} THEN "cancelled"
    ELSE IF task[i] \in {"get", "call", "put"}
    THEN IF HasOutput(i) /\ ~Room(output_queue[i]) THEN "fin_c" ELSE "cancelled"
    ELSE task[i]

CancelPuts(i) == task[i] \in {"get", "call", "put"} /\ HasOutput(i) /\ Room(output_queue[i])

CancelQueue(i) ==
    IF CancelPuts(i) THEN Append(output_queue[i], SHUTDOWN) ELSE output_queue[i]

\* a synchronous user call runs in an executor thread, which a cancelled
\* await does not stop
CancelOrphans(i) ==
    IF task[i] = "call" /\ is_sync[i] THEN orphans[i] + 1 ELSE orphans[i]

CancelShut(i) == IF CancelPuts(i) THEN shut[i] + 1 ELSE shut[i]

CancelChildren ==
    /\ task' = [i \in Stages |-> CancelPc(i)]
    /\ output_queue' = [i \in Stages |-> CancelQueue(i)]
    /\ orphans' = [i \in Stages |-> CancelOrphans(i)]
    /\ shut' = [i \in Stages |-> CancelShut(i)]
    /\ item' = [i \in Stages |-> IF TaskPending(task[i]) THEN 0 ELSE item[i]]
    /\ UNCHANGED late

\* AsyncBlockingSourceAdapter.unblock_producer
UnblockActs == ~stop_event /\ ProducerAlive
UnblockEvent == stop_event \/ UnblockActs
\* an unblock_producer that injects no sentinel
UnblockQueueNone == data_queue
UnblockQueue ==
    IF UnblockActs /\ HandoffRoom(data_queue) THEN Append(data_queue, SHUTDOWN) ELSE data_queue


\* ======================= stage tasks: shared pieces =======================
\* the finally of _run: put the sentinel on the output queue q.  how: the
\* loop ended by break on end of stream ("ok") or in an except clause ("err")
FinishPc(i, q, how) ==
    IF HasOutput(i) /\ ~Room(q)
    THEN (IF how = "err" THEN "fin_err" ELSE "fin")
    ELSE (IF how = "err" THEN "failed" ELSE "done")

\* a finally that puts nothing
FinishQueueSilent(i, q) == q
FinishQueue(i, q) == IF HasOutput(i) /\ Room(q) THEN Append(q, SHUTDOWN) ELSE q

FinishShut(i, q) == IF HasOutput(i) /\ Room(q) THEN shut[i] + 1 ELSE shut[i]

\* AsyncBlockingSourceAdapter.produce returns None at once (se: the stop
\* event, alive: the producer thread is alive)
ProduceEnds(se, alive) == Blocking /\ (se \/ ~alive)

\* PipelineTask.start creates the task; its first step runs _run up to its
\* first suspension point.  se, alive: as left by adapter.start
NewTaskPc(i, se, alive) ==
    IF i = 1
    THEN IF ProduceEnds(se, alive) THEN FinishPc(1, output_queue[1], "ok") ELSE "call"
    ELSE "get"

NewTaskQueue(i, se, alive) ==
    IF i = 1 /\ ProduceEnds(se, alive) THEN FinishQueue(1, output_queue[1]) ELSE output_queue[i]

NewTaskShut(i, se, alive) ==
    IF i = 1 /\ ProduceEnds(se, alive) /\ Room(output_queue[1]) THEN 1 ELSE 0

\* ==================== _async_run_pipeline (main coroutine) ================
\* the cleanup loop reaches stage i; tk: the stage tasks at that moment
CleanupNext(i, tk) ==
    IF i > N THEN [main |-> "done", idx |-> 0, unblock |-> FALSE]
    ELSE IF TaskPending(tk[i]) THEN [main |-> "stop_task", idx |-> i, unblock |-> FALSE]
    ELSE [main |-> "stop_call", idx |-> i, unblock |-> (i = 1 /\ Blocking)]

\* PipelineTask.stop of stage i is entered; adapter.stop of a blocking source
\* calls unblock_producer and joins the producer thread for at most 1 s, which
\* delays the loop and changes nothing
GoCleanup(i, tk) ==
    LET c == CleanupNext(i, tk) IN
    /\ main' = c.main
    /\ co_idx' = c.idx
    /\ stopped' = IF c.main = "stop_call" THEN stopped \cup {c.idx} ELSE stopped
    /\ IF c.unblock
       THEN stop_event' = UnblockEvent /\ data_queue' = UnblockQueue
       ELSE UNCHANGED <<stop_event, data_queue>>

\* _run_loop: the thread creates the loop, sets the ready event and runs
\* _async_run_pipeline up to its first suspension point, the await of the
\* first step.start().  Without `log`, every step.start() and step.stop()
\* raises NameError before it reaches the adapter.
loop_thread_run ==
    /\ thread = "new"
    /\ thread' = "run"
    /\ loop' = TRUE
    /\ IF log_bound
       THEN main' = "start" /\ co_idx' = 1
       ELSE main' = "done" /\ co_idx' = 0
    /\ UNCHANGED <<steps, is_sync, running, loop_thread, caller, raised, runs_left>>
    /\ UNCHANGED <<stop_req, cancel_req, pipeline_future, gather, stop_co, stopped>>
    /\ UNCHANGED <<log_bound, utilVars, taskVars, srcVars, dataVars>>

\* step.start(): the user's start() returned or raised.  On return
\* AsyncBlockingSourceAdapter.start launches the producer thread, the task is
\* created, and the next step is started or the gather future is awaited.
main_start ==
    /\ LoopRuns
    /\ main = "start"
    /\ LET i == co_idx
           launch == i = 1 /\ Blocking /\ ~ProducerAlive
           se == IF launch THEN FALSE ELSE stop_event
       IN
       \/ /\ stop_event' = se
          /\ data_queue' = IF launch THEN <<>> ELSE data_queue
          /\ producer_thread' = IF launch THEN "check" ELSE producer_thread
          /\ task' = [task EXCEPT ![i] = NewTaskPc(i, se, TRUE)]
          /\ output_queue' = [output_queue EXCEPT ![i] = NewTaskQueue(i, se, TRUE)]
          /\ shut' = [shut EXCEPT ![i] = NewTaskShut(i, se, TRUE)]
          /\ item' = [item EXCEPT ![i] = 0]
          /\ late' = [late EXCEPT ![i] = FALSE]
          /\ IF i = N
             THEN main' = "gather" /\ co_idx' = 0 /\ gather' = TRUE /\ pipeline_future' = TRUE
             ELSE main' = "start" /\ co_idx' = i + 1 /\ UNCHANGED <<gather, pipeline_future>>
          /\ UNCHANGED <<stopped, user_raised, orphans, prod_item>>
       \/ /\ user_raised' = user_raised \cup {i}
          /\ GoCleanup(1, task)
          /\ UNCHANGED <<taskVars, producer_thread, prod_item, gather, pipeline_future>>
    /\ UNCHANGED <<thread, stop_req, cancel_req, stop_co>>
    /\ UNCHANGED <<log_bound, utilVars, apiVars, source_len, next_item, produced, consumed, dropped>>

\* the await of the gather future returns or raises
main_gather_done ==
    /\ LoopRuns
    /\ main = "gather"
    /\ GatherDone
    /\ GoCleanup(1, task)
    /\ UNCHANGED <<thread, stop_req, cancel_req, pipeline_future, gather, stop_co>>
    /\ UNCHANGED <<log_bound, utilVars, apiVars, taskVars, producer_thread, prod_item, dataVars>>

\* PipelineTask.stop: the awaited task ended; adapter.stop() is entered
main_stop_task ==
    /\ LoopRuns
    /\ main = "stop_task"
    /\ ~TaskPending(task[co_idx])
    /\ main' = "stop_call"
    /\ stopped' = stopped \cup {co_idx}
    /\ IF co_idx = 1 /\ Blocking
       THEN stop_event' = UnblockEvent /\ data_queue' = UnblockQueue
       ELSE UNCHANGED <<stop_event, data_queue>>
    /\ UNCHANGED <<thread, stop_req, cancel_req, co_idx, pipeline_future, gather, stop_co>>
    /\ UNCHANGED <<log_bound, utilVars, apiVars, taskVars, producer_thread, prod_item, dataVars>>

\* adapter.stop(): the user's stop() returned, or raised (which the cleanup
\* loop logs); the next stage is stopped
main_stop_call ==
    /\ LoopRuns
    /\ main = "stop_call"
    /\ GoCleanup(co_idx + 1, task)
    /\ UNCHANGED <<thread, stop_req, cancel_req, pipeline_future, gather, stop_co>>
    /\ UNCHANGED <<log_bound, utilVars, apiVars, taskVars, producer_thread, prod_item, dataVars>>

\* ==================== _async_stop_pipeline (stop coroutine) ===============
\* first step: return at once when there is no gather future ("skipped");
\* otherwise unblock a blocking source, then wait_for the gather future
stop_co_start ==
    /\ LoopRuns
    /\ stop_co = "sched"
    /\ IF steps = <<>> \/ ~pipeline_future
       THEN stop_co' = "skipped" /\ UNCHANGED <<stop_event, data_queue>>
       ELSE /\ stop_co' = IF GatherDone THEN "done" ELSE "wait"
            /\ IF Blocking
               THEN stop_event' = UnblockEvent /\ data_queue' = UnblockQueue
               ELSE UNCHANGED <<stop_event, data_queue>>
    /\ UNCHANGED <<thread, stop_req, cancel_req, main, co_idx, pipeline_future, gather, stopped>>
    /\ UNCHANGED <<log_bound, utilVars, apiVars, taskVars, producer_thread, prod_item, dataVars>>

\* wait_for returns: the gather future is done
stop_co_wake ==
    /\ LoopRuns
    /\ stop_co \in {"wait", "wait_cancel"}
    /\ GatherDone
    /\ stop_co' = "done"
    /\ UNCHANGED <<thread, stop_req, cancel_req, main, co_idx, pipeline_future, gather, stopped>>
    /\ UNCHANGED <<log_bound, utilVars, apiVars, taskVars, srcVars, dataVars>>

\* ============================ the event loop ==============================
\* the loop runs the cancel callbacks scheduled by stop() after its 70 s
\* timeout: the stop coroutine ends, the children of the gather future are
\* cancelled
loop_cancel ==
    /\ LoopRuns
    /\ cancel_req
    /\ cancel_req' = FALSE
    /\ stop_co' = IF stop_co \in {"sched", "wait", "wait_cancel"} THEN "done" ELSE stop_co
    /\ IF gather /\ ~GatherDone
       THEN CancelChildren
       ELSE UNCHANGED taskVars
    /\ UNCHANGED <<thread, stop_req, main, co_idx, pipeline_future, gather, stopped>>
    /\ UNCHANGED <<log_bound, utilVars, apiVars, srcVars, dataVars>>

\* the finally of _run_loop: every task that is not done is cancelled, then
\* the loop runs until all of them are done.  _async_run_pipeline takes the
\* CancelledError at its await: while starting a step or awaiting the gather
\* future it goes to the cleanup loop; while awaiting a stage task inside
\* PipelineTask.stop the error is caught there and the cleanup goes on; while
\* awaiting adapter.stop() it leaves the cleanup loop.
EnterFinal ==
    /\ thread' = "final"
    /\ CancelChildren
    /\ stop_co' = IF stop_co \in {"sched", "wait", "wait_cancel"} THEN "done" ELSE stop_co
    /\ IF main \in {"start", "gather"}
       THEN GoCleanup(1, [i \in Stages |-> CancelPc(i)])
       ELSE /\ main' = IF main = "stop_call" THEN "cancelled" ELSE main
            /\ UNCHANGED <<co_idx, stopped, stop_event, data_queue>>
    /\ UNCHANGED <<cancel_req, pipeline_future, gather>>
    /\ UNCHANGED <<steps, is_sync, running, loop_thread, caller, raised, runs_left, loop>>
    /\ UNCHANGED <<log_bound, utilVars, producer_thread, prod_item, dataVars>>

\* loop.stop() runs before _async_run_pipeline is done: run_until_complete
\* raises, _run_loop goes to its finally
loop_stop ==
    /\ thread = "run"
    /\ main # "done"
    /\ stop_req
    /\ ~cancel_req
    /\ stop_req' = FALSE
    /\ EnterFinal

\* run_until_complete(_async_run_pipeline()) returns
loop_complete ==
    /\ thread = "run"
    /\ main = "done"
    /\ UNCHANGED stop_req
    /\ EnterFinal

\* the finally of _run_loop: all tasks are done, the loop is closed
loop_close ==
    /\ thread = "final"
    /\ \A i \in Stages : ~TaskPending(task[i])
    /\ main \in {"none", "done", "cancelled"}
    /\ thread' = "dead"
    /\ loop' = FALSE
    /\ UNCHANGED <<steps, is_sync, running, loop_thread, caller, raised, runs_left>>
    /\ UNCHANGED <<stop_req, cancel_req, main, co_idx, pipeline_future, gather, stop_co, stopped>>
    /\ UNCHANGED <<log_bound, utilVars, taskVars, srcVars, dataVars>>

\* the finally of _run_loop: loop.stop() runs while the loop waits for the
\* cancelled tasks; run_until_complete raises, the thread exits and leaves the
\* tasks pending
loop_abandon ==
    /\ thread = "final"
    /\ stop_req
    /\ ~cancel_req
    /\ stop_req' = FALSE
    /\ thread' = "dead"
    /\ loop' = FALSE
    /\ UNCHANGED <<steps, is_sync, running, loop_thread, caller, raised, runs_left>>
    /\ UNCHANGED <<cancel_req, main, co_idx, pipeline_future, gather, stop_co, stopped>>
    /\ UNCHANGED <<log_bound, utilVars, taskVars, srcVars, dataVars>>


\* ============================== stage tasks ===============================
\* the top of the while loop of _run, after a put on queue q returned
LoopTopPc(i, q) ==
    IF i = 1
    THEN IF ProduceEnds(stop_event, ProducerAlive) THEN FinishPc(1, q, "ok") ELSE "call"
    ELSE "get"

LoopTopQueue(i, q) ==
    IF i = 1 /\ ProduceEnds(stop_event, ProducerAlive) THEN FinishQueue(1, q) ELSE q

LoopTopShut(i, q) ==
    IF i = 1 /\ ProduceEnds(stop_event, ProducerAlive) THEN FinishShut(1, q) ELSE shut[i]

\* a put that gives up on a full queue instead of suspending
EmitLossy(i, d) ==
    LET q == IF Room(output_queue[i]) THEN Append(output_queue[i], d) ELSE output_queue[i] IN
    /\ task' = [task EXCEPT ![i] = LoopTopPc(i, q)]
    /\ output_queue' = [output_queue EXCEPT ![i] = LoopTopQueue(i, q)]
    /\ shut' = [shut EXCEPT ![i] = LoopTopShut(i, q)]
    /\ item' = [item EXCEPT ![i] = 0]
    /\ late' = [late EXCEPT ![i] = @ \/ shut[i] > 0]

\* await self.output_queue.put(d): returns at once when the queue has room,
\* suspends the task otherwise
Emit(i, d) ==
    IF Room(output_queue[i])
    THEN LET q == Append(output_queue[i], d) IN
         /\ task' = [task EXCEPT ![i] = LoopTopPc(i, q)]
         /\ output_queue' = [output_queue EXCEPT ![i] = LoopTopQueue(i, q)]
         /\ shut' = [shut EXCEPT ![i] = LoopTopShut(i, q)]
         /\ item' = [item EXCEPT ![i] = 0]
         /\ late' = [late EXCEPT ![i] = @ \/ shut[i] > 0]
    ELSE /\ task' = [task EXCEPT ![i] = "put"]
         /\ item' = [item EXCEPT ![i] = d]
         /\ UNCHANGED <<output_queue, shut, late>>

\* break out of the while loop of _run, into its finally
Finish(i, how) ==
    /\ task' = [task EXCEPT ![i] = FinishPc(i, output_queue[i], how)]
    /\ output_queue' = [output_queue EXCEPT ![i] = FinishQueue(i, @)]
    /\ shut' = [shut EXCEPT ![i] = FinishShut(i, output_queue[i])]
    /\ item' = [item EXCEPT ![i] = 0]
    /\ UNCHANGED late

\* SourceTask._run over AsyncSourceAdapter.produce: the user's produce()
\* returned an item, returned None, or raised
source_produce ==
    /\ LoopRuns
    /\ task[1] = "call"
    /\ ~Blocking
    /\ \/ /\ next_item <= source_len
          /\ next_item' = next_item + 1
          /\ produced' = Append(produced, next_item)
          /\ Emit(1, next_item)
          /\ UNCHANGED user_raised
       \/ /\ next_item > source_len
          /\ Finish(1, "ok")
          /\ UNCHANGED <<source_len, next_item, produced, user_raised>>
       \/ /\ user_raised' = user_raised \cup {1}
          /\ Finish(1, "err")
          /\ UNCHANGED <<source_len, next_item, produced>>
    /\ UNCHANGED <<log_bound, utilVars, apiVars, loopVars, orphans, srcVars, source_len, consumed, dropped>>

\* SourceTask._run over AsyncBlockingSourceAdapter.produce: _data_queue.get,
\* run in an executor thread, returned
source_get ==
    /\ LoopRuns
    /\ task[1] = "call"
    /\ Blocking
    /\ data_queue # <<>>
    /\ data_queue' = Tail(data_queue)
    /\ IF Head(data_queue) = SHUTDOWN
       THEN Finish(1, "ok")
       ELSE Emit(1, Head(data_queue))
    /\ UNCHANGED <<stop_event, producer_thread, prod_item>>
    /\ UNCHANGED <<log_bound, utilVars, apiVars, loopVars, orphans, dataVars>>

\* _run: the suspended put of a datum returns
task_put(i) ==
    /\ LoopRuns
    /\ task[i] = "put"
    /\ Room(output_queue[i])
    /\ Emit(i, item[i])
    /\ UNCHANGED <<log_bound, utilVars, apiVars, loopVars, orphans, srcVars, dataVars>>

\* _run: the suspended put of the sentinel, in the finally, returns
task_fin(i) ==
    /\ LoopRuns
    /\ task[i] \in {"fin", "fin_err", "fin_c"}
    /\ Room(output_queue[i])
    /\ task' = [task EXCEPT ![i] = IF @ = "fin_c" THEN "cancelled"
                                   ELSE IF @ = "fin_err" THEN "failed" ELSE "done"]
    /\ output_queue' = [output_queue EXCEPT ![i] = Append(@, SHUTDOWN)]
    /\ shut' = [shut EXCEPT ![i] = @ + 1]
    /\ UNCHANGED <<item, orphans, late>>
    /\ UNCHANGED <<log_bound, utilVars, apiVars, loopVars, srcVars, dataVars>>

\* ProcessorTask._run / SinkTask._run: input_queue.get returns; on the
\* sentinel the loop ends, otherwise the user's process()/consume() is called
task_get(i) ==
    /\ LoopRuns
    /\ i \in 2..N
    /\ task[i] = "get"
    /\ output_queue[i - 1] # <<>>
    /\ LET x == Head(output_queue[i - 1]) IN
       IF x = SHUTDOWN
       THEN /\ task' = [task EXCEPT ![i] = FinishPc(i, output_queue[i], "ok")]
            /\ output_queue' = [output_queue EXCEPT ![i - 1] = Tail(@),
                                                    ![i] = FinishQueue(i, @)]
            /\ shut' = [shut EXCEPT ![i] = FinishShut(i, output_queue[i])]
            /\ UNCHANGED <<item, consumed>>
       ELSE /\ task' = [task EXCEPT ![i] = "call"]
            /\ item' = [item EXCEPT ![i] = x]
            /\ output_queue' = [output_queue EXCEPT ![i - 1] = Tail(@)]
            /\ consumed' = IF Kind(i) = "sink" THEN Append(consumed, x) ELSE consumed
            /\ UNCHANGED shut
    /\ UNCHANGED <<orphans, late>>
    /\ UNCHANGED <<log_bound, utilVars, apiVars, loopVars, srcVars, source_len, next_item, produced, dropped, user_raised>>

\* ProcessorTask._run: the user's process() returned a datum, returned None
\* (drop), or raised
processor_process(i) ==
    /\ LoopRuns
    /\ i \in 2..N
    /\ Kind(i) = "processor"
    /\ task[i] = "call"
    /\ \/ /\ Emit(i, Process(item[i]))
          /\ UNCHANGED <<dropped, user_raised>>
       \/ /\ dropped' = [dropped EXCEPT ![i] = @ \cup {item[i]}]
          /\ task' = [task EXCEPT ![i] = "get"]
          /\ item' = [item EXCEPT ![i] = 0]
          /\ UNCHANGED <<output_queue, shut, late, user_raised>>
       \/ /\ user_raised' = user_raised \cup {i}
          /\ Finish(i, "err")
          /\ UNCHANGED dropped
    /\ UNCHANGED <<log_bound, utilVars, apiVars, loopVars, orphans, srcVars, source_len, next_item, produced, consumed>>

\* SinkTask._run: the user's consume() returned or raised
sink_consume(i) ==
    /\ LoopRuns
    /\ i \in 2..N
    /\ Kind(i) = "sink"
    /\ task[i] = "call"
    /\ \/ /\ task' = [task EXCEPT ![i] = "get"]
          /\ UNCHANGED user_raised
       \/ /\ task' = [task EXCEPT ![i] = "failed"]
          /\ user_raised' = user_raised \cup {i}
    /\ item' = [item EXCEPT ![i] = 0]
    /\ UNCHANGED <<output_queue, orphans, shut, late>>
    /\ UNCHANGED <<log_bound, utilVars, apiVars, loopVars, srcVars, source_len, next_item, produced, consumed, dropped>>

\* an executor thread whose await was cancelled ends: the user's
\* process()/consume() returns, or _data_queue.get takes a value
orphan_return(i) ==
    /\ orphans[i] > 0
    /\ orphans' = [orphans EXCEPT ![i] = @ - 1]
    /\ IF i = 1
       THEN data_queue # <<>> /\ data_queue' = Tail(data_queue)
       ELSE UNCHANGED data_queue
    /\ UNCHANGED <<task, item, output_queue, shut, late>>
    /\ UNCHANGED <<stop_event, producer_thread, prod_item>>
    /\ UNCHANGED <<log_bound, utilVars, apiVars, loopVars, dataVars>>

\* ============ AsyncBlockingSourceAdapter._producer_loop (thread) ==========
\* while not self._stop_event.is_set()
producer_check ==
    /\ producer_thread = "check"
    /\ producer_thread' = IF stop_event THEN "final" ELSE "produce"
    /\ UNCHANGED <<stop_event, data_queue, prod_item>>
    /\ UNCHANGED <<log_bound, utilVars, apiVars, loopVars, taskVars, dataVars>>

\* the user's produce() returned an item, returned None, or raised
producer_produce ==
    /\ producer_thread = "produce"
    /\ \/ /\ next_item <= source_len
          /\ next_item' = next_item + 1
          /\ produced' = Append(produced, next_item)
          /\ IF stop_event
             THEN producer_thread' = "final" /\ prod_item' = 0
             ELSE producer_thread' = "put" /\ prod_item' = next_item
          /\ UNCHANGED user_raised
       \/ /\ next_item > source_len
          /\ producer_thread' = "put_shut"
          /\ UNCHANGED <<prod_item, source_len, next_item, produced, user_raised>>
       \/ /\ user_raised' = user_raised \cup {1}
          /\ producer_thread' = "put_shut"
          /\ UNCHANGED <<prod_item, source_len, next_item, produced>>
    /\ UNCHANGED <<stop_event, data_queue, source_len, consumed, dropped>>
    /\ UNCHANGED <<log_bound, utilVars, apiVars, loopVars, taskVars>>

\* self._data_queue.put(data) returns
producer_put ==
    /\ producer_thread = "put"
    /\ HandoffRoom(data_queue)
    /\ data_queue' = Append(data_queue, prod_item)
    /\ prod_item' = 0
    /\ producer_thread' = "check"
    /\ UNCHANGED stop_event
    /\ UNCHANGED <<log_bound, utilVars, apiVars, loopVars, taskVars, dataVars>>

\* self._data_queue.put(_SHUTDOWN) returns
producer_put_shutdown ==
    /\ producer_thread = "put_shut"
    /\ HandoffRoom(data_queue)
    /\ data_queue' = Append(data_queue, SHUTDOWN)
    /\ producer_thread' = "final"
    /\ UNCHANGED <<stop_event, prod_item>>
    /\ UNCHANGED <<log_bound, utilVars, apiVars, loopVars, taskVars, dataVars>>

\* the finally of _producer_loop: put_nowait(_SHUTDOWN), queue.Full ignored
producer_exit ==
    /\ producer_thread = "final"
    /\ data_queue' = IF HandoffRoom(data_queue) THEN Append(data_queue, SHUTDOWN) ELSE data_queue
    /\ producer_thread' = "dead"
    /\ UNCHANGED <<stop_event, prod_item>>
    /\ UNCHANGED <<log_bound, utilVars, apiVars, loopVars, taskVars, dataVars>>

\* ================================ timeouts ================================
\* the steps that run no user code: they take no time to speak of once they
\* are enabled
PromptStep ==
    \/ loop_thread_run
    \/ main_gather_done
    \/ main_stop_task
    \/ stop_co_start
    \/ stop_co_wake
    \/ loop_cancel
    \/ loop_stop
    \/ loop_complete
    \/ loop_close
    \/ loop_abandon
    \/ source_get
    \/ \E i \in Stages : task_put(i)
    \/ \E i \in Stages : task_fin(i)
    \/ \E i \in Stages : task_get(i)
    \/ producer_check
    \/ producer_put
    \/ producer_put_shutdown
    \/ producer_exit

\* a timeout (60 s, 70 s, 10 s) expires only while the program waits for user
\* code or for something that will not happen
Prompt == ENABLED PromptStep

\* wait_for times out after 60 s: it cancels the gather future, which cancels
\* every child, and waits for the gather future to be done
stop_co_timeout ==
    /\ LoopRuns
    /\ stop_co = "wait"
    /\ ~GatherDone
    /\ ~Prompt
    /\ stop_co' = "wait_cancel"
    /\ CancelChildren
    /\ UNCHANGED <<thread, stop_req, cancel_req, main, co_idx, pipeline_future, gather, stopped>>
    /\ UNCHANGED <<log_bound, utilVars, apiVars, srcVars, dataVars>>

\* Pipeline.stop: future.result timed out after 70 s, which is after the
\* 60 s of wait_for; the stop coroutine and the gather future are cancelled,
\* then loop.stop is scheduled
stop_timeout ==
    /\ caller = "stop_wait"
    /\ stop_co \in {"sched", "wait_cancel"}
    /\ ~Prompt
    /\ caller' = "stop_join"
    /\ cancel_req' = TRUE
    /\ stop_req' = (loop /\ LoopRuns)
    /\ UNCHANGED <<steps, is_sync, running, loop, loop_thread, raised, runs_left>>
    /\ UNCHANGED <<thread, main, co_idx, pipeline_future, gather, stop_co, stopped>>
    /\ UNCHANGED <<log_bound, utilVars, taskVars, srcVars, dataVars>>

\* Pipeline.stop: _loop_thread.join(timeout=10.0) returned, the thread having
\* exited or not
stop_join ==
    /\ caller = "stop_join"
    /\ ThreadAlive => ~Prompt
    /\ running' = FALSE
    /\ loop' = FALSE
    /\ loop_thread' = FALSE
    /\ pipeline_future' = FALSE
    /\ caller' = "idle"
    /\ UNCHANGED <<steps, is_sync, raised, runs_left>>
    /\ UNCHANGED <<thread, stop_req, cancel_req, main, co_idx, gather, stop_co, stopped>>
    /\ UNCHANGED <<log_bound, utilVars, taskVars, srcVars, dataVars>>

\* ============ SlidingWindowBuffer (app_utils/slidingwindowbuffer.py) =======
\* One producer thread calls push and flush, one consumer thread calls pull.
\* Every method body runs under self._condition, so each is one action but
\* for the wait inside pull.
\* the element types (dtype and item shape) the producer pushes
DTypes == {"int16", "float32"}
Cells == 0..(MaxCapacity - 1)

\* SlidingWindowBuffer.__init__ accepts (w, s, c)
ValidParams(w, s, c) == w > 0 /\ s > 0 /\ s <= w /\ c >= w + s

\* the state after SlidingWindowBuffer(w, s, c)
BufferNew(w, s, c) ==
    /\ window_size = w
    /\ slide_amount = s
    /\ capacity = c
    /\ buffer = [k \in Cells |-> 0]
    /\ dtype = "none"
    /\ write_index = 0
    /\ read_index = 0
    /\ data_count = 0
    /\ new_data_count = 0
    /\ pull_state = "idle"
    /\ pull_timed = FALSE
    /\ notified = FALSE
    /\ push_ret = "none"
    /\ pull_ret = "none"
    /\ window = <<>>
    /\ prev_window = <<>>
    /\ chain = 0
    /\ next_value = 1

\* a has_data that does not ask for a whole window
has_data_loose == dtype # "none" /\ new_data_count >= slide_amount
\* SlidingWindowBuffer.has_data
has_data == dtype # "none" /\ data_count >= window_size /\ new_data_count >= slide_amount

\* an overflow test that lets every batch in
OverflowsNever(n) == FALSE
\* push: the batch of n items would overflow the buffer
Overflows(n) == data_count + n > capacity

\* a write that always begins at the first cell of the ring
WrittenAtZero(n) ==
    [k \in Cells |-> IF k < n THEN next_value + k ELSE buffer[k]]
\* push: the ring after the batch next_value, next_value + 1, ... of n items
\* was written at write_index, in one part or in two
Written(n) ==
    LET end_index == write_index + n
        part1_len == capacity - write_index
    IN [k \in Cells |->
          IF end_index <= capacity
          THEN IF k >= write_index /\ k < end_index
               THEN next_value + (k - write_index) ELSE buffer[k]
          ELSE IF k >= write_index /\ k < capacity
               THEN next_value + (k - write_index)
               ELSE IF k < n - part1_len
               THEN next_value + part1_len + k ELSE buffer[k]]

\* a pull that always reads from the start of the ring
TakenFromZero ==
    [k \in 1..window_size |-> buffer[k - 1]]
\* pull: the window of window_size items at read_index, a slice or the
\* concatenation of two slices
Taken ==
    LET first == read_index
        last == first + window_size
        end_wrapped == last % capacity
    IN IF last <= capacity
       THEN [k \in 1..window_size |-> buffer[first + k - 1]]
       ELSE [k \in 1..window_size |->
               IF k <= capacity - first THEN buffer[first + k - 1]
               ELSE buffer[k - (capacity - first) - 1]]

\* a push that never notifies
NotifiesNever(n) == FALSE
\* push: after a batch of n items the condition is notified
Notifies(n) == new_data_count + n >= slide_amount

\* SlidingWindowBuffer.push(data), data an ndarray of n items of type d
push ==
    /\ \E d \in DTypes, n \in 0..(MaxCapacity + 1) :
        /\ next_value + n <= MaxPushed + 1
        /\ IF n = 0
           THEN /\ push_ret' = "True"
                /\ UNCHANGED <<buffer, dtype, write_index, data_count, new_data_count, notified, next_value>>
           ELSE IF dtype # "none" /\ d # dtype
           THEN /\ push_ret' = "TypeError"
                /\ UNCHANGED <<buffer, dtype, write_index, data_count, new_data_count, notified, next_value>>
           ELSE /\ dtype' = (IF dtype = "none" THEN d ELSE dtype)
                /\ IF Overflows(n)
                   THEN /\ push_ret' = "False"
                        /\ UNCHANGED <<buffer, write_index, data_count, new_data_count, notified, next_value>>
                   ELSE /\ push_ret' = "True"
                        /\ buffer' = Written(n)
                        /\ write_index' = (write_index + n) % capacity
                        /\ data_count' = data_count + n
                        /\ new_data_count' = new_data_count + n
                        /\ notified' = (notified \/ (pull_state = "waiting" /\ Notifies(n)))
                        /\ next_value' = next_value + n
    /\ UNCHANGED <<window_size, slide_amount, capacity, read_index, pull_state, pull_timed,
                   pull_ret, window, prev_window, chain>>
    /\ UNCHANGED notBufVars

\* pull, once wait_for returned True: the window is taken and the read index
\* advances
TakeWindow ==
    /\ pull_ret' = "window"
    /\ window' = Taken
    /\ prev_window' = window
    /\ chain' = (IF chain < 2 THEN chain + 1 ELSE chain)
    /\ read_index' = (read_index + slide_amount) % capacity
    /\ data_count' = data_count - slide_amount
    /\ new_data_count' = new_data_count - slide_amount
    /\ pull_state' = "idle"
    /\ pull_timed' = FALSE
    /\ notified' = FALSE

\* SlidingWindowBuffer.pull(timeout) up to the first evaluation of has_data
\* by wait_for: the window is taken at once, or the consumer waits
pull ==
    /\ pull_state = "idle"
    /\ IF has_data
       THEN TakeWindow
       ELSE /\ pull_state' = "waiting"
            /\ pull_timed' \in BOOLEAN
            /\ notified' = FALSE
            /\ UNCHANGED <<read_index, data_count, new_data_count, pull_ret, window, prev_window, chain>>
    /\ UNCHANGED <<window_size, slide_amount, capacity, buffer, dtype, write_index, push_ret, next_value>>
    /\ UNCHANGED notBufVars

\* pull: the consumer, notified by push or flush, runs again inside wait_for
\* and evaluates has_data; it takes the window or goes back to waiting
pull_wake ==
    /\ pull_state = "waiting"
    /\ notified
    /\ IF has_data
       THEN TakeWindow
       ELSE /\ notified' = FALSE
            /\ UNCHANGED <<read_index, data_count, new_data_count, pull_state, pull_timed,
                           pull_ret, window, prev_window, chain>>
    /\ UNCHANGED <<window_size, slide_amount, capacity, buffer, dtype, write_index, push_ret, next_value>>
    /\ UNCHANGED notBufVars

\* pull: the timeout of wait_for expires; wait_for evaluates has_data once
\* more, and pull returns an empty array when it is false
pull_timeout ==
    /\ pull_state = "waiting"
    /\ pull_timed
    /\ IF has_data
       THEN TakeWindow
       ELSE /\ pull_ret' = "empty"
            /\ pull_state' = "idle"
            /\ pull_timed' = FALSE
            /\ notified' = FALSE
            /\ UNCHANGED <<read_index, data_count, new_data_count, window, prev_window, chain>>
    /\ UNCHANGED <<window_size, slide_amount, capacity, buffer, dtype, write_index, push_ret, next_value>>
    /\ UNCHANGED notBufVars

\* a flush that forgets to reset the count of new items
flush_keeps_new ==
    /\ write_index' = 0
    /\ read_index' = 0
    /\ data_count' = 0
    /\ notified' = (pull_state = "waiting")
    /\ chain' = 0
    /\ UNCHANGED <<window_size, slide_amount, capacity, buffer, dtype, pull_state, pull_timed,
                   push_ret, pull_ret, window, prev_window, next_value, new_data_count>>
    /\ UNCHANGED notBufVars

\* SlidingWindowBuffer.flush
flush ==
    /\ write_index' = 0
    /\ read_index' = 0
    /\ data_count' = 0
    /\ new_data_count' = 0
    /\ notified' = (pull_state = "waiting")
    /\ chain' = 0
    /\ UNCHANGED <<window_size, slide_amount, capacity, buffer, dtype, pull_state, pull_timed,
                   push_ret, pull_ret, window, prev_window, next_value>>
    /\ UNCHANGED notBufVars

\* ================== ClientServer (app_utils/bridge.py) ====================
\* Threads: the callers of call()/provide() (one per slot of UserCalls), the
\* Bridge.read_loop thread running _conn_manager (reader), the thread
\* register_methods_on_reconnect (it makes its calls in slot 0), and the peer
\* at the other end of the socket.  A msgid is a 32-bit number, written here
\* as the pair <<high half, low half>> of 16-bit numbers.
Half == 65536
ROUTE_ALREADY_EXISTS_ERR == 5
MALFORMED_CALL_ERR == 253
FUNCTION_NOT_FOUND_ERR == 254
GENERIC_ERR == 255
RegCall == 0
UserCalls == 1..MaxCalls
Calls == 0..MaxCalls
Methods == 1..MaxMethods
CallActive(c) == call_pc[c] \notin {"idle", "done"}

\* (id + 1) % (2**32)
Succ32(id) ==
    IF id[2] < Half - 1 THEN <<id[1], id[2] + 1>>
    ELSE IF id[1] < Half - 1 THEN <<id[1] + 1, 0>> ELSE <<0, 0>>

\* the keys of self.callbacks
Keys == {e[1] : e \in callbacks}

\* an id generator that does not look at callbacks
SkipNothing(id) == id
\* _increment_next_msgid: while self.next_msgid in self.callbacks
RECURSIVE SkipPending(_)
SkipPending(id) == IF id \in Keys THEN SkipPending(Succ32(id)) ELSE id

\* a pop that leaves the entry in callbacks
KeptAll(id) == callbacks
\* self.callbacks.pop(msgid, None)
Popped(id) == {e \in callbacks : e[1] # id}

\* a response handler for which error code 0x05 is an error like any other
DeliverStrict(frame) ==
    IF frame.result = "none" /\ frame.error = 0 THEN "result"
    ELSE IF frame.result # "none" THEN "result"
    ELSE "error"
\* _handle_msg, response: which continuation is invoked, on_result ("result")
\* or on_error ("error")
Deliver(frame) ==
    IF frame.result = "none" /\ frame.error = 0 THEN "result"
    ELSE IF frame.result # "none" \/ frame.error = ROUTE_ALREADY_EXISTS_ERR THEN "result"
    ELSE "error"

\* a disconnect that wakes nobody
FailedNone(q) == q
\* _fail_pending_callbacks: on_error(reason) puts (False, reason) on the
\* resp_queue of every call in callbacks
Failed(q) ==
    [c \in Calls |-> IF (\E e \in callbacks : e[2] = c) /\ q[c] = "empty"
                     THEN "conn_error" ELSE q[c]]

\* what a handler given to provide() does when it is called: it returns a
\* value, returns a value msgpack cannot pack, or raises
HandlerSorts == {"returns", "unpackable", "NameError", "TypeError", "ValueError", "Exception"}

\* no request handled yet
NoFrame == [type |-> "none", msgid |-> <<0, 0>>, hit |-> FALSE, how |-> "none"]

\* self.handlers.get(method_name): the handler of a method (0: none)
Handler(m) == IF m \in Methods THEN handlers[m] ELSE 0

\* _send_response: the error code that goes with an exception
ErrCode(error) ==
    IF error = "NameError" THEN FUNCTION_NOT_FOUND_ERR
    ELSE IF error \in {"TypeError", "ValueError"} THEN MALFORMED_CALL_ERR
    ELSE GENERIC_ERR

\* _send_response: the frames handed to the socket.  What packb raises is
\* logged, and then no frame goes out
SendResponse(msgid, error, response) ==
    IF response = "unpackable" THEN <<>>
    ELSE <<[type |-> "response", msgid |-> msgid, method |-> 0,
            error |-> IF error = "none" THEN 0 ELSE ErrCode(error), result |-> response]>>

\* _handle_msg, msg_type 0, after the lookup: the response to a request for
\* a method whose handler is h (0: none) and does how
Responded(msgid, h, how) ==
    IF h = 0 THEN SendResponse(msgid, "NameError", "none")
    ELSE IF how = "returns" THEN SendResponse(msgid, "none", "value")
    ELSE IF how = "unpackable" THEN SendResponse(msgid, "none", "unpackable")
    ELSE SendResponse(msgid, how, "none")

\* the state after ClientServer(): connected, the read thread started
ClientServerNew(provided, sorts, asks, notes) ==
    /\ next_msgid = <<0, 0>>
    /\ callbacks = {}
    /\ handlers = provided
    /\ handlers_lock = FALSE
    /\ is_connected_flag = TRUE
    /\ conn = "up"
    /\ reader = "read"
    /\ wire = <<>>
    /\ peer_reqs = {}
    /\ cancels = {}
    /\ call_pc = [c \in Calls |-> "idle"]
    /\ call_msgid = [c \in Calls |-> <<0, 0>>]
    /\ call_what = [c \in Calls |-> [method |-> 0, handler |-> 0]]
    /\ resp_queue = [c \in Calls |-> "empty"]
    /\ call_out = [c \in Calls |-> "none"]
    /\ invoked = [c \in Calls |-> 0]
    /\ in_time = [c \in Calls |-> FALSE]
    /\ conn_lost = [c \in Calls |-> FALSE]
    /\ rereg_waiting = 0
    /\ rereg_todo = {}
    /\ to_offer = {}
    /\ offered = {}
    /\ drops_left = MaxDrops
    /\ requests_left = MaxRequests
    /\ handler_sorts = sorts
    /\ notes_left = notes
    /\ peer_asks = asks
    /\ recv_errors = 0
    /\ dispatched = NoFrame
    /\ sent = <<>>

\* a ClientServer nothing was provided to; its peer sends requests only, for
\* a method that no provide() names (method 0), and the handlers the user
\* provides return a value the response can carry
BridgeNew == ClientServerNew([m \in Methods |-> 0], {"returns"}, {0}, 0)

\* call(): msgid = self._increment_next_msgid().  Slot c is a user thread in
\* call(method 0), or in provide(m, h) which calls "$/register"; the handler
\* it provides is its own, handler c.  The threads are told apart by the
\* order in which they draw.
call_draw(c) ==
    /\ c \in UserCalls
    /\ call_pc[c] = "idle"
    /\ \A b \in UserCalls : b < c => call_pc[b] # "idle"
    /\ \E m \in {0} \cup Methods :
        call_what' = [call_what EXCEPT ![c] = [method |-> m, handler |-> IF m = 0 THEN 0 ELSE c]]
    /\ next_msgid' = SkipPending(Succ32(next_msgid))
    /\ call_msgid' = [call_msgid EXCEPT ![c] = next_msgid']
    /\ call_pc' = [call_pc EXCEPT ![c] = "drawn"]
    /\ conn_lost' = [conn_lost EXCEPT ![c] = conn # "up"]
    /\ UNCHANGED <<callbacks, handlers, handlers_lock, is_connected_flag, conn, reader, wire,
                   peer_reqs, cancels, resp_queue, call_out, invoked, in_time,
                   rereg_waiting, rereg_todo, to_offer, offered, drops_left, requests_left>>
    /\ UNCHANGED notRpcVars

\* call(): self.callbacks[msgid] = (on_result, on_error)
call_insert(c) ==
    /\ call_pc[c] = "drawn"
    /\ callbacks' = Popped(call_msgid[c]) \cup {<<call_msgid[c], c>>}
    /\ call_pc' = [call_pc EXCEPT ![c] = "send"]
    /\ UNCHANGED <<next_msgid, handlers, handlers_lock, is_connected_flag, conn, reader, wire,
                   peer_reqs, cancels, call_msgid, call_what, resp_queue, call_out, invoked,
                   in_time, conn_lost, rereg_waiting, rereg_todo, to_offer, offered,
                   drops_left, requests_left>>
    /\ UNCHANGED notRpcVars

\* call(): self._send_bytes(request).  The request reaches the peer; or it is
\* written to a socket the peer has left and is lost; or _send_bytes raises
\* (no connection within 3 s, socket error), and call() pops the msgid and
\* raises RuntimeError
call_send(c) ==
    /\ call_pc[c] = "send"
    /\ \/ /\ is_connected_flag /\ conn = "up"
          /\ peer_reqs' = peer_reqs \cup {<<call_msgid[c], call_what[c].method>>}
          /\ offered' = IF c = RegCall THEN offered \cup {call_what[c].method} ELSE offered
          /\ call_pc' = [call_pc EXCEPT ![c] = "wait"]
          /\ UNCHANGED <<callbacks, call_out>>
       \/ /\ is_connected_flag /\ conn = "broken"
          /\ call_pc' = [call_pc EXCEPT ![c] = "wait"]
          /\ UNCHANGED <<callbacks, call_out, peer_reqs, offered>>
       \/ /\ ~is_connected_flag \/ conn # "up"
          /\ callbacks' = Popped(call_msgid[c])
          /\ call_out' = [call_out EXCEPT ![c] = "RuntimeError"]
          /\ call_pc' = [call_pc EXCEPT ![c] = "done"]
          /\ UNCHANGED <<peer_reqs, offered>>
    /\ UNCHANGED <<next_msgid, handlers, handlers_lock, is_connected_flag, conn, reader, wire,
                   cancels, call_msgid, call_what, resp_queue, invoked, in_time, conn_lost,
                   rereg_waiting, rereg_todo, to_offer, drops_left, requests_left>>
    /\ UNCHANGED notRpcVars

\* call(): resp_queue.get returned.  (True, result): call returns it.
\* (False, [code, msg]): call raises ValueError.  (False, ConnectionError):
\* `err_code, err_msg = response` raises TypeError.  Every exception pops the
\* msgid on its way out.  provide() goes on to install its handler when call
\* returned.
call_receive(c) ==
    /\ call_pc[c] = "wait"
    /\ resp_queue[c] # "empty"
    /\ call_out' = [call_out EXCEPT ![c] =
                       IF resp_queue[c] = "result" THEN "result"
                       ELSE IF resp_queue[c] = "error" THEN "ValueError" ELSE "TypeError"]
    /\ callbacks' = IF resp_queue[c] = "result" THEN callbacks ELSE Popped(call_msgid[c])
    /\ call_pc' = [call_pc EXCEPT ![c] =
                      IF resp_queue[c] = "result" /\ c # RegCall /\ call_what[c].handler # 0
                      THEN "install" ELSE "done"]
    /\ UNCHANGED <<next_msgid, handlers, handlers_lock, is_connected_flag, conn, reader, wire,
                   peer_reqs, cancels, call_msgid, call_what, resp_queue, invoked, in_time,
                   conn_lost, rereg_waiting, rereg_todo, to_offer, offered, drops_left,
                   requests_left>>
    /\ UNCHANGED notRpcVars

\* call(): resp_queue.get(timeout=timeout) raised queue.Empty
call_expire(c) ==
    /\ call_pc[c] = "wait"
    /\ resp_queue[c] = "empty"
    /\ call_pc' = [call_pc EXCEPT ![c] = "expired"]
    /\ UNCHANGED <<next_msgid, callbacks, handlers, handlers_lock, is_connected_flag, conn,
                   reader, wire, peer_reqs, cancels, call_msgid, call_what, resp_queue,
                   call_out, invoked, in_time, conn_lost, rereg_waiting, rereg_todo, to_offer,
                   offered, drops_left, requests_left>>
    /\ UNCHANGED notRpcVars

\* a timeout that notifies nobody
CancelledNever(c) == cancels
\* call(), except queue.Empty: if self.callbacks.pop(msgid, None):
\* self.notify("$/cancelRequest", msgid), which reaches the peer when the
\* connection is up (notify swallows a send failure)
Cancelled(c) ==
    IF call_msgid[c] \in Keys /\ is_connected_flag /\ conn = "up"
    THEN cancels \cup {call_msgid[c]} ELSE cancels

\* call(), except queue.Empty: under callbacks_lock the msgid is popped and,
\* if it was still there, the cancellation notified; TimeoutError is raised
call_cancel(c) ==
    /\ call_pc[c] = "expired"
    /\ callbacks' = Popped(call_msgid[c])
    /\ cancels' = Cancelled(c)
    /\ call_out' = [call_out EXCEPT ![c] = "TimeoutError"]
    /\ call_pc' = [call_pc EXCEPT ![c] = "done"]
    /\ UNCHANGED <<next_msgid, handlers, handlers_lock, is_connected_flag, conn, reader, wire,
                   peer_reqs, call_msgid, call_what, resp_queue, invoked, in_time, conn_lost,
                   rereg_waiting, rereg_todo, to_offer, offered, drops_left, requests_left>>
    /\ UNCHANGED notRpcVars

\* provide(): with self.handlers_lock: self.handlers[method_name] = handler
provide_install(c) ==
    /\ call_pc[c] = "install"
    /\ ~handlers_lock
    /\ handlers' = [handlers EXCEPT ![call_what[c].method] = call_what[c].handler]
    /\ call_pc' = [call_pc EXCEPT ![c] = "done"]
    /\ UNCHANGED <<next_msgid, callbacks, handlers_lock, is_connected_flag, conn, reader, wire,
                   peer_reqs, cancels, call_msgid, call_what, resp_queue, call_out, invoked,
                   in_time, conn_lost, rereg_waiting, rereg_todo, to_offer, offered,
                   drops_left, requests_left>>
    /\ UNCHANGED notRpcVars

\* any number of calls by other threads came and went: each drew the next
\* free msgid and removed its callbacks entry when it ended, which leaves
\* next_msgid at a value that is not a key of callbacks
calls_elapse ==
    /\ \E id \in {<<0, 0>>, <<Half - 1, Half - 2>>} :
        /\ id \notin Keys
        /\ id # next_msgid
        /\ next_msgid' = id
    /\ UNCHANGED <<callbacks, handlers, handlers_lock, is_connected_flag, conn, reader, wire,
                   peer_reqs, cancels, call_pc, call_msgid, call_what, resp_queue, call_out,
                   invoked, in_time, conn_lost, rereg_waiting, rereg_todo, to_offer, offered,
                   drops_left, requests_left>>
    /\ UNCHANGED notRpcVars

\* a lookup that finds the continuations of a call by its msgid alone
EntryAny(id, c) == CallActive(c) /\ call_msgid[c] = id
\* _handle_msg, msg_type 1: cbs = self.callbacks.pop(msgid, None) is the
\* entry of call c
Entry(id, c) == <<id, c>> \in callbacks

\* _read_loop / _handle_msg, msg_type 1: the callbacks entry of the msgid is
\* popped and one of its continuations invoked; without an entry the frame is
\* dropped
read_response ==
    /\ reader = "read"
    /\ conn \in {"up", "broken"}
    /\ wire # <<>>
    /\ Head(wire).type = "response"
    /\ LET f == Head(wire) IN
       /\ wire' = Tail(wire)
       /\ callbacks' = Popped(f.msgid)
       /\ resp_queue' = [c \in Calls |->
              IF Entry(f.msgid, c) /\ resp_queue[c] = "empty"
              THEN Deliver(f) ELSE resp_queue[c]]
       /\ invoked' = [c \in Calls |->
              IF Entry(f.msgid, c) THEN invoked[c] + 1 ELSE invoked[c]]
       /\ in_time' = [c \in Calls |->
              in_time[c] \/ (call_pc[c] = "wait" /\ call_msgid[c] = f.msgid)]
    /\ UNCHANGED <<next_msgid, handlers, handlers_lock, is_connected_flag, conn, reader,
                   peer_reqs, cancels, call_pc, call_msgid, call_what, call_out, conn_lost,
                   rereg_waiting, rereg_todo, to_offer, offered, drops_left, requests_left>>
    /\ UNCHANGED notRpcVars

\* _read_loop / _handle_msg, msg_type 0: the handler is looked up under
\* handlers_lock and called, and _send_response sends its result, or the
\* exception it raised, or NameError when there is no handler
read_request ==
    /\ reader = "read"
    /\ conn \in {"up", "broken"}
    /\ wire # <<>>
    /\ Head(wire).type = "request"
    /\ ~handlers_lock
    /\ wire' = Tail(wire)
    /\ LET f == Head(wire)
           h == Handler(f.method)
       IN \E how \in IF h = 0 THEN {"none"} ELSE handler_sorts :
            /\ dispatched' = [type |-> "request", msgid |-> f.msgid, hit |-> h # 0, how |-> how]
            /\ sent' = Responded(f.msgid, h, how)
    /\ UNCHANGED <<next_msgid, callbacks, handlers, handlers_lock, is_connected_flag, conn,
                   reader, peer_reqs, cancels, call_pc, call_msgid, call_what, resp_queue,
                   call_out, invoked, in_time, conn_lost, rereg_waiting, rereg_todo, to_offer,
                   offered, drops_left, requests_left>>
    /\ UNCHANGED <<handler_sorts, notes_left, peer_asks, recv_errors>>
    /\ UNCHANGED notSrvVars

\* _read_loop / _handle_msg, msg_type 2: the handler is looked up under
\* handlers_lock and called; what it raises is logged; nothing is sent
read_notification ==
    /\ reader = "read"
    /\ conn \in {"up", "broken"}
    /\ wire # <<>>
    /\ Head(wire).type = "notification"
    /\ ~handlers_lock
    /\ wire' = Tail(wire)
    /\ LET f == Head(wire)
           h == Handler(f.method)
       IN \E how \in IF h = 0 THEN {"none"} ELSE handler_sorts :
            dispatched' = [type |-> "notification", msgid |-> f.msgid, hit |-> h # 0,
                           how |-> how]
    /\ sent' = <<>>
    /\ UNCHANGED <<next_msgid, callbacks, handlers, handlers_lock, is_connected_flag, conn,
                   reader, peer_reqs, cancels, call_pc, call_msgid, call_what, resp_queue,
                   call_out, invoked, in_time, conn_lost, rereg_waiting, rereg_todo, to_offer,
                   offered, drops_left, requests_left>>
    /\ UNCHANGED <<handler_sorts, notes_left, peer_asks, recv_errors>>
    /\ UNCHANGED notSrvVars

\* _read_loop: recv, or the unpacker, raised an exception other than
\* ConnectionResetError: it is logged and the loop goes on to the next recv,
\* which raises again or returns b""
read_error ==
    /\ reader = "read"
    /\ conn = "faulty"
    /\ recv_errors' = IF recv_errors < MaxRecvErrors THEN recv_errors + 1 ELSE recv_errors
    /\ conn' \in {"faulty", "broken"}
    /\ UNCHANGED <<next_msgid, callbacks, handlers, handlers_lock, is_connected_flag,
                   reader, wire, peer_reqs, cancels, call_pc, call_msgid, call_what, resp_queue,
                   call_out, invoked, in_time, conn_lost, rereg_waiting, rereg_todo, to_offer,
                   offered, drops_left, requests_left>>
    /\ UNCHANGED <<handler_sorts, notes_left, peer_asks, dispatched, sent>>
    /\ UNCHANGED notSrvVars

\* _read_loop: recv returned b"" or raised ConnectionResetError; the finally
\* runs _fail_pending_callbacks, and _conn_manager sleeps
read_eof ==
    /\ reader = "read"
    /\ conn = "broken"
    /\ wire = <<>>
    /\ resp_queue' = Failed(resp_queue)
    /\ invoked' = [c \in Calls |->
           IF \E e \in callbacks : e[2] = c THEN invoked[c] + 1 ELSE invoked[c]]
    /\ callbacks' = {}
    /\ reader' = "sleep"
    /\ UNCHANGED <<next_msgid, handlers, handlers_lock, is_connected_flag, conn, wire,
                   peer_reqs, cancels, call_pc, call_msgid, call_what, call_out, in_time,
                   conn_lost, rereg_waiting, rereg_todo, to_offer, offered, drops_left,
                   requests_left>>
    /\ UNCHANGED notRpcVars

\* _connect: the broken connection object is closed and the flag cleared
conn_reset ==
    /\ reader = "sleep"
    /\ reader' = "connect"
    /\ conn' = "none"
    /\ is_connected_flag' = FALSE
    /\ UNCHANGED <<next_msgid, callbacks, handlers, handlers_lock, wire, peer_reqs, cancels,
                   call_pc, call_msgid, call_what, resp_queue, call_out, invoked, in_time,
                   conn_lost, rereg_waiting, rereg_todo, to_offer, offered, drops_left,
                   requests_left>>
    /\ UNCHANGED notRpcVars

\* _connect: the socket connects, the flag is set, the thread
\* register_methods_on_reconnect is started when handlers is not empty, and
\* _conn_manager enters _read_loop
connect ==
    /\ reader = "connect"
    /\ reader' = "read"
    /\ conn' = "up"
    /\ is_connected_flag' = TRUE
    /\ wire' = <<>>
    /\ to_offer' = {m \in Methods : handlers[m] # 0}
    /\ offered' = {}
    /\ rereg_waiting' = IF \E m \in Methods : handlers[m] # 0
                        THEN rereg_waiting + 1 ELSE rereg_waiting
    /\ UNCHANGED <<next_msgid, callbacks, handlers, handlers_lock, peer_reqs, cancels, call_pc,
                   call_msgid, call_what, resp_queue, call_out, invoked, in_time, conn_lost,
                   rereg_todo, drops_left, requests_left>>
    /\ UNCHANGED notRpcVars

\* register_methods_on_reconnect: with self.handlers_lock, for method in
\* self.handlers.keys()
rereg_start ==
    /\ rereg_waiting > 0
    /\ ~handlers_lock
    /\ handlers_lock' = TRUE
    /\ rereg_waiting' = rereg_waiting - 1
    /\ rereg_todo' = {m \in Methods : handlers[m] # 0}
    /\ UNCHANGED <<next_msgid, callbacks, handlers, is_connected_flag, conn, reader, wire,
                   peer_reqs, cancels, call_pc, call_msgid, call_what, resp_queue, call_out,
                   invoked, in_time, conn_lost, to_offer, offered, drops_left, requests_left>>
    /\ UNCHANGED notRpcVars

\* a thread that goes through none of the methods
RemainingNone == {}
\* register_methods_on_reconnect: the methods the loop has still to go
\* through; the try/except around each call keeps it going
Remaining == rereg_todo

\* register_methods_on_reconnect: self.call("$/register", method) for the
\* next method, whatever the call before it returned or raised
rereg_call ==
    /\ handlers_lock
    /\ ~CallActive(RegCall)
    /\ \E m \in Remaining :
        /\ rereg_todo' = rereg_todo \ {m}
        /\ call_what' = [call_what EXCEPT ![RegCall] = [method |-> m, handler |-> 0]]
    /\ next_msgid' = SkipPending(Succ32(next_msgid))
    /\ call_msgid' = [call_msgid EXCEPT ![RegCall] = next_msgid']
    /\ call_pc' = [call_pc EXCEPT ![RegCall] = "drawn"]
    /\ resp_queue' = [resp_queue EXCEPT ![RegCall] = "empty"]
    /\ call_out' = [call_out EXCEPT ![RegCall] = "none"]
    /\ invoked' = [invoked EXCEPT ![RegCall] = 0]
    /\ in_time' = [in_time EXCEPT ![RegCall] = FALSE]
    /\ conn_lost' = [conn_lost EXCEPT ![RegCall] = conn # "up"]
    /\ UNCHANGED <<callbacks, handlers, handlers_lock, is_connected_flag, conn, reader, wire,
                   peer_reqs, cancels, rereg_waiting, to_offer, offered, drops_left,
                   requests_left>>
    /\ UNCHANGED notRpcVars

\* register_methods_on_reconnect: the loop over the methods ends and
\* handlers_lock is released
rereg_end ==
    /\ handlers_lock
    /\ ~CallActive(RegCall)
    /\ Remaining = {}
    /\ handlers_lock' = FALSE
    /\ UNCHANGED <<next_msgid, callbacks, handlers, is_connected_flag, conn, reader, wire,
                   peer_reqs, cancels, call_pc, call_msgid, call_what, resp_queue, call_out,
                   invoked, in_time, conn_lost, rereg_waiting, rereg_todo, to_offer, offered,
                   drops_left, requests_left>>
    /\ UNCHANGED notRpcVars

\* the peer answers a request it has received, for the first time or again:
\* a result, no result and no error, an error, or the error
\* ROUTE_ALREADY_EXISTS_ERR
peer_respond ==
    /\ conn = "up"
    /\ Len(wire) < MaxWire
    /\ \E r \in peer_reqs, res \in {"none", "value"}, err \in {0, 1, ROUTE_ALREADY_EXISTS_ERR} :
        /\ res = "value" => err = 0
        /\ wire' = Append(wire, [type |-> "response", msgid |-> r[1], method |-> 0, error |-> err, result |-> res])
    /\ UNCHANGED <<next_msgid, callbacks, handlers, handlers_lock, is_connected_flag, conn,
                   reader, peer_reqs, cancels, call_pc, call_msgid, call_what, resp_queue,
                   call_out, invoked, in_time, conn_lost, rereg_waiting, rereg_todo, to_offer,
                   offered, drops_left, requests_left>>
    /\ UNCHANGED notRpcVars

\* the peer sends a request for one of the methods, under a msgid of its own
peer_request ==
    /\ conn = "up"
    /\ Len(wire) < MaxWire
    /\ requests_left > 0
    /\ requests_left' = requests_left - 1
    /\ \E m \in peer_asks :
        wire' = Append(wire, [type |-> "request", msgid |-> <<0, requests_left>>, method |-> m,
                              error |-> 0, result |-> "none"])
    /\ UNCHANGED <<next_msgid, callbacks, handlers, handlers_lock, is_connected_flag, conn,
                   reader, peer_reqs, cancels, call_pc, call_msgid, call_what, resp_queue,
                   call_out, invoked, in_time, conn_lost, rereg_waiting, rereg_todo, to_offer,
                   offered, drops_left>>
    /\ UNCHANGED notRpcVars

\* the peer sends a notification for one of the methods
peer_notify ==
    /\ conn = "up"
    /\ Len(wire) < MaxWire
    /\ notes_left > 0
    /\ notes_left' = notes_left - 1
    /\ \E m \in peer_asks :
        wire' = Append(wire, [type |-> "notification", msgid |-> <<0, 0>>, method |-> m,
                              error |-> 0, result |-> "none"])
    /\ UNCHANGED <<next_msgid, callbacks, handlers, handlers_lock, is_connected_flag, conn,
                   reader, peer_reqs, cancels, call_pc, call_msgid, call_what, resp_queue,
                   call_out, invoked, in_time, conn_lost, rereg_waiting, rereg_todo, to_offer,
                   offered, drops_left, requests_left>>
    /\ UNCHANGED <<handler_sorts, peer_asks, recv_errors, dispatched, sent>>
    /\ UNCHANGED notSrvVars

\* the frames _handle_msg does not take for a request, a response or a
\* notification of the protocol, by what is wrong with them: the message is
\* not an array or is empty; the array has the wrong length for its type;
\* the type tag is not 0, 1 or 2; the params of a request or notification
\* are not an array, or its method is not a string; the error of a response
\* is a true value that is not an array of two or more; the error of a
\* response is a false value other than nil (0, False, "", [])
MalformedResponses == {"response_bad_error", "response_falsy_error"}
Malformed ==
    {"not_array", "bad_length", "bad_tag", "bad_params"} \cup MalformedResponses

\* the peer sends a frame that is not well formed; a malformed response
\* carries the msgid of a request the peer has received
peer_garble ==
    /\ conn = "up"
    /\ Len(wire) < MaxWire
    /\ \E sort \in Malformed, r \in peer_reqs \cup {<<<<0, 0>>, 0>>}, res \in {"none", "value"} :
        /\ sort \notin MalformedResponses => (r = <<<<0, 0>>, 0>> /\ res = "none")
        /\ sort \in MalformedResponses => r \in peer_reqs
        /\ sort = "response_bad_error" => res = "none"
        /\ wire' = Append(wire, [type |-> sort, msgid |-> r[1], method |-> 0, error |-> 0,
                                  result |-> res])
    /\ UNCHANGED <<next_msgid, callbacks, handlers, handlers_lock, is_connected_flag, conn,
                   reader, peer_reqs, cancels, call_pc, call_msgid, call_what, resp_queue,
                   call_out, invoked, in_time, conn_lost, rereg_waiting, rereg_todo, to_offer,
                   offered, drops_left, requests_left>>
    /\ UNCHANGED notRpcVars

\* _handle_msg on a malformed frame.  Not an array: the warning of line 511
\* and return.  Wrong length, params or method of the wrong kind, a true
\* error that is no array of two: ValueError, caught and logged at 584; for
\* a response this is before the pop of line 547.  Unknown tag: the warning
\* of line 582.  A false error other than nil passes the test of line 543
\* and the entry is popped; then, if the frame has a result, on_result is
\* invoked with it, and if it has none, error[0] raises, which is caught
\* and logged at 586.  The read loop goes on to its next frame.
read_malformed ==
    /\ reader = "read"
    /\ conn \in {"up", "broken"}
    /\ wire # <<>>
    /\ Head(wire).type \in Malformed
    /\ LET f == Head(wire)
           pops == f.type = "response_falsy_error"
           delivers == pops /\ f.result # "none"
       IN /\ wire' = Tail(wire)
          /\ callbacks' = IF pops THEN Popped(f.msgid) ELSE callbacks
          /\ resp_queue' = [c \in Calls |->
                 IF delivers /\ Entry(f.msgid, c) /\ resp_queue[c] = "empty"
                 THEN "result" ELSE resp_queue[c]]
          /\ invoked' = [c \in Calls |->
                 IF delivers /\ Entry(f.msgid, c) THEN invoked[c] + 1 ELSE invoked[c]]
          /\ dispatched' = [type |-> f.type, msgid |-> f.msgid, hit |-> FALSE,
                            how |-> IF delivers THEN "result"
                                    ELSE IF pops THEN "raised" ELSE "dropped"]
    /\ UNCHANGED <<next_msgid, handlers, handlers_lock, is_connected_flag, conn, reader,
                   peer_reqs, cancels, call_pc, call_msgid, call_what, call_out, in_time,
                   conn_lost, rereg_waiting, rereg_todo, to_offer, offered, drops_left,
                   requests_left>>
    /\ UNCHANGED <<handler_sorts, notes_left, peer_asks, recv_errors, sent>>
    /\ UNCHANGED notSrvVars

\* the socket goes bad: recv raises an exception that is not
\* ConnectionResetError (another OSError, say)
recv_fault ==
    /\ conn = "up"
    /\ drops_left > 0
    /\ drops_left' = drops_left - 1
    /\ conn' = "faulty"
    /\ peer_reqs' = {}
    /\ conn_lost' = [c \in Calls |-> conn_lost[c] \/ CallActive(c)]
    /\ UNCHANGED <<next_msgid, callbacks, handlers, handlers_lock, is_connected_flag, reader,
                   wire, cancels, call_pc, call_msgid, call_what, resp_queue, call_out, invoked,
                   in_time, rereg_waiting, rereg_todo, to_offer, offered, requests_left>>
    /\ UNCHANGED notRpcVars

\* the peer goes away: it closes the connection.  (A reset that loses the
\* frames not yet read is the run in which the peer had not sent them.)
peer_drop ==
    /\ conn = "up"
    /\ drops_left > 0
    /\ drops_left' = drops_left - 1
    /\ conn' = "broken"
    /\ peer_reqs' = {}
    /\ conn_lost' = [c \in Calls |-> conn_lost[c] \/ CallActive(c)]
    /\ UNCHANGED <<next_msgid, callbacks, handlers, handlers_lock, is_connected_flag, reader,
                   wire, cancels, call_pc, call_msgid, call_what, resp_queue, call_out, invoked,
                   in_time, rereg_waiting, rereg_todo, to_offer, offered, requests_left>>
    /\ UNCHANGED notRpcVars

\* ==================== AppController (app_utils/app.py) =====================
\* Threads: the callers of the controller (thread 1 is the main thread, the
\* one that may call run()), and one worker thread per started brick, which
\* runs _method_runner for the brick's runnable method.  A brick is described
\* by its runnable method (brick_kind) and by the method whose signature is
\* not (self) alone, if it has one (brick_sig).  What a start() or stop() hook
\* does is the caller's choice at each call: it returns, it raises, or it
\* calls back into the controller (register, unregister, ...).
Bricks == 1..MaxBricks
AppThreads == 1..MaxAppThreads
MainThread == 1
\* the bricks given to the controller: what matters of a brick with a bad
\* signature is the same for a loop and for an execute method
BrickSorts ==
    {<<"ok", "loop">>, <<"ok", "execute">>, <<"bad_start", "loop">>,
     <<"bad_method", "execute">>, <<"bad_stop", "loop">>}
Hooks == {"returns", "raises", "reenters"}

\* brick in queue
InQueue(q, b) == \E i \in 1..Len(q) : q[i] = b
\* deque.remove(brick): the first occurrence goes
Removed(q, b) ==
    IF ~InQueue(q, b) THEN q
    ELSE LET i == CHOOSE j \in 1..Len(q) : q[j] = b /\ \A k \in 1..(j - 1) : q[k] # b
         IN  SubSeq(q, 1, i - 1) \o SubSeq(q, i + 1, Len(q))
\* reversed(bricks_to_stop)
Reversed(q) == [i \in 1..Len(q) |-> q[Len(q) + 1 - i]]

\* the state after AppController(), for bricks of the given description
AppNew(sig, kind) ==
    /\ brick_sig = sig
    /\ brick_kind = kind
    /\ waiting_queue = <<>>
    /\ running_queue = <<>>
    /\ app_lock = 0
    /\ app_pc = [t \in AppThreads |-> "idle"]
    /\ app_brick = [t \in AppThreads |-> 0]
    /\ app_out = [t \in AppThreads |-> "none"]
    /\ in_run = [t \in AppThreads |-> FALSE]
    /\ to_stop = <<>>
    /\ stopping = 0
    /\ worker = [b \in Bricks |-> "none"]
    /\ is_running = [b \in Bricks |-> FALSE]
    /\ execute_calls = [b \in Bricks |-> 0]
    /\ start_plan = <<>>
    /\ start_log = <<>>
    /\ stop_plan = <<>>
    /\ stop_log = <<>>

\* a register that does not look at the queues
Registered(b) == Append(waiting_queue, b)
\* register: the brick is appended unless it is running or already waiting
RegisteredOnce(b) ==
    IF InQueue(running_queue, b) \/ InQueue(waiting_queue, b) THEN waiting_queue
    ELSE Append(waiting_queue, b)

\* unregister: the brick leaves the waiting queue unless it is running
Unregistered(b) ==
    IF InQueue(running_queue, b) THEN waiting_queue ELSE Removed(waiting_queue, b)

\* _start reaches brick.start(): the brick is not running and
\* _has_callable_method(brick, "start") has not raised TypeError
CallsStartHook(b) == ~InQueue(running_queue, b) /\ brick_sig[b] # "bad_start"

\* _start gets to its end: the hook returned and
\* _discover_runnable_methods has not raised TypeError
StartsBrick(b, hook) == CallsStartHook(b) /\ hook = "returns" /\ brick_sig[b] # "bad_method"

\* _start: the worker thread is started with its Event set and the brick is
\* appended to the running queue; every exception is logged and dropped
Started(b, hook) ==
    /\ worker' = IF StartsBrick(b, hook) THEN [worker EXCEPT ![b] = "spawned"] ELSE worker
    /\ is_running' = IF StartsBrick(b, hook) THEN [is_running EXCEPT ![b] = TRUE] ELSE is_running
    /\ execute_calls' = IF StartsBrick(b, hook) THEN [execute_calls EXCEPT ![b] = 0]
                        ELSE execute_calls
    /\ running_queue' = IF StartsBrick(b, hook) THEN Append(running_queue, b) ELSE running_queue

\* a user callback, called with _app_lock held, calls the controller: the
\* thread waits for the lock it holds
Reenter(t) ==
    /\ app_lock' = t
    /\ app_pc' = [app_pc EXCEPT ![t] = "reentered"]

\* the call of thread t ends
Return(t, how) ==
    /\ app_pc' = [app_pc EXCEPT ![t] = "idle"]
    /\ app_out' = [app_out EXCEPT ![t] = how]
    /\ in_run' = [in_run EXCEPT ![t] = FALSE]
    /\ app_brick' = [app_brick EXCEPT ![t] = 0]

\* the lock is released; what was noted of the call that held it is dropped
Release ==
    /\ app_lock' = 0
    /\ start_plan' = <<>>
    /\ start_log' = <<>>
    /\ stop_plan' = <<>>
    /\ stop_log' = <<>>

register(t, b) ==
    /\ app_pc[t] = "idle"
    /\ app_lock = 0
    /\ waiting_queue' = RegisteredOnce(b)
    /\ app_out' = [app_out EXCEPT ![t] = "none"]
    /\ UNCHANGED <<brick_sig, brick_kind, running_queue, app_lock, app_pc, app_brick, in_run, to_stop,
                   stopping, worker, is_running, execute_calls, start_plan, start_log,
                   stop_plan, stop_log>>
    /\ UNCHANGED notAppVars

unregister(t, b) ==
    /\ app_pc[t] = "idle"
    /\ app_lock = 0
    /\ waiting_queue' = Unregistered(b)
    /\ app_out' = [app_out EXCEPT ![t] = "none"]
    /\ UNCHANGED <<brick_sig, brick_kind, running_queue, app_lock, app_pc, app_brick, in_run, to_stop,
                   stopping, worker, is_running, execute_calls, start_plan, start_log,
                   stop_plan, stop_log>>
    /\ UNCHANGED notAppVars

\* start_brick: self.unregister(brick)
start_brick(t, b) ==
    /\ app_pc[t] = "idle"
    /\ app_lock = 0
    /\ waiting_queue' = Unregistered(b)
    /\ app_pc' = [app_pc EXCEPT ![t] = "start_brick"]
    /\ app_brick' = [app_brick EXCEPT ![t] = b]
    /\ app_out' = [app_out EXCEPT ![t] = "none"]
    /\ UNCHANGED <<brick_sig, brick_kind, running_queue, app_lock, in_run, to_stop, stopping,
                   worker, is_running, execute_calls, start_plan, start_log, stop_plan,
                   stop_log>>
    /\ UNCHANGED notAppVars

\* start_brick: with self._app_lock: self._start(brick)
start_brick_start(t) ==
    /\ app_pc[t] = "start_brick"
    /\ app_lock = 0
    /\ \E hook \in Hooks :
        IF hook = "reenters"
        THEN /\ CallsStartHook(app_brick[t])
             /\ Reenter(t)
             /\ UNCHANGED <<running_queue, worker, is_running, execute_calls, app_out, in_run,
                            app_brick>>
        ELSE /\ Started(app_brick[t], hook)
             /\ Return(t, "none")
             /\ UNCHANGED app_lock
    /\ UNCHANGED <<brick_sig, brick_kind, waiting_queue, to_stop, stopping,
                   start_plan, start_log, stop_plan, stop_log>>
    /\ UNCHANGED notAppVars

\* start_bricks, or run by the main thread: _start_managed_bricks takes the lock
start_bricks(t) ==
    /\ app_pc[t] = "idle"
    /\ app_lock = 0
    /\ app_lock' = t
    /\ app_pc' = [app_pc EXCEPT ![t] = "starting"]
    /\ in_run' \in {[in_run EXCEPT ![t] = r] : r \in {FALSE, t = MainThread}}
    /\ app_brick' = [app_brick EXCEPT ![t] = 0]
    /\ app_out' = [app_out EXCEPT ![t] = "none"]
    /\ start_plan' = waiting_queue
    /\ start_log' = <<>>
    /\ UNCHANGED <<brick_sig, brick_kind, waiting_queue, running_queue, to_stop, stopping,
                   worker, is_running, execute_calls, stop_plan, stop_log>>
    /\ UNCHANGED notAppVars

\* _start_managed_bricks: brick = self._waiting_queue.popleft(); self._start(brick)
start_next(t) ==
    /\ app_pc[t] = "starting"
    /\ waiting_queue # <<>>
    /\ waiting_queue' = Tail(waiting_queue)
    /\ start_log' = Append(start_log, Head(waiting_queue))
    /\ \E hook \in Hooks :
        IF hook = "reenters"
        THEN /\ CallsStartHook(Head(waiting_queue))
             /\ Reenter(t)
             /\ UNCHANGED <<running_queue, worker, is_running, execute_calls>>
        ELSE /\ Started(Head(waiting_queue), hook)
             /\ UNCHANGED <<app_lock, app_pc>>
    /\ UNCHANGED <<brick_sig, brick_kind, app_brick, app_out, in_run, to_stop, stopping,
                   start_plan, stop_plan, stop_log>>
    /\ UNCHANGED notAppVars

\* _start_managed_bricks: the waiting queue is empty, the lock is released;
\* run() goes on into loop()
start_end(t) ==
    /\ app_pc[t] = "starting"
    /\ waiting_queue = <<>>
    /\ Release
    /\ IF in_run[t]
       THEN /\ app_pc' = [app_pc EXCEPT ![t] = "user_loop"]
            /\ UNCHANGED <<app_out, in_run, app_brick>>
       ELSE Return(t, "none")
    /\ UNCHANGED <<brick_sig, brick_kind, waiting_queue, running_queue, to_stop,
                   stopping, worker, is_running, execute_calls>>
    /\ UNCHANGED notAppVars

\* loop(): the user loop, or the sleep, ends with an exception.  StopIteration
\* and KeyboardInterrupt are caught and run() goes on; any other exception
\* leaves loop() and run()
user_loop_exit(t) ==
    /\ app_pc[t] = "user_loop"
    /\ \E e \in {"StopIteration", "KeyboardInterrupt", "Exception"} :
        IF e = "Exception"
        THEN Return(t, "Exception")
        ELSE /\ app_pc' = [app_pc EXCEPT ![t] = "shutdown"]
             /\ UNCHANGED <<app_out, in_run, app_brick>>
    /\ UNCHANGED <<brick_sig, brick_kind, waiting_queue, running_queue, app_lock,
                   to_stop, stopping, worker, is_running, execute_calls, start_plan,
                   start_log, stop_plan, stop_log>>
    /\ UNCHANGED notAppVars

\* stop_bricks, or run after loop(): _stop_all_bricks takes the lock and
\* bricks_to_stop = list(self._running_queue), to be gone through reversed
stop_bricks(t) ==
    /\ app_pc[t] \in {"idle", "shutdown"}
    /\ app_lock = 0
    /\ app_lock' = t
    /\ app_pc' = [app_pc EXCEPT ![t] = "stopping"]
    /\ app_brick' = [app_brick EXCEPT ![t] = 0]
    /\ app_out' = [app_out EXCEPT ![t] = "none"]
    /\ to_stop' = Reversed(running_queue)
    /\ stop_plan' = running_queue
    /\ stop_log' = <<>>
    /\ UNCHANGED <<brick_sig, brick_kind, waiting_queue, running_queue, in_run, stopping,
                   worker, is_running, execute_calls, start_plan, start_log>>
    /\ UNCHANGED notAppVars

\* stop_brick: with self._app_lock: self._stop(brick)
stop_brick(t, b) ==
    /\ app_pc[t] = "idle"
    /\ app_lock = 0
    /\ app_lock' = t
    /\ app_pc' = [app_pc EXCEPT ![t] = "stopping"]
    /\ app_brick' = [app_brick EXCEPT ![t] = b]
    /\ app_out' = [app_out EXCEPT ![t] = "none"]
    /\ to_stop' = <<b>>
    /\ stop_plan' = <<b>>
    /\ stop_log' = <<>>
    /\ UNCHANGED <<brick_sig, brick_kind, waiting_queue, running_queue, in_run, stopping,
                   worker, is_running, execute_calls, start_plan, start_log>>
    /\ UNCHANGED notAppVars

\* _stop, up to the join: a brick that is not running is left alone;
\* _has_callable_method(brick, "stop") raises TypeError out of _stop, and out
\* of the call, for a bad signature; brick.stop() is called and what it
\* raises is logged; the worker's Event is cleared
stop_next(t) ==
    /\ app_pc[t] = "stopping"
    /\ stopping = 0
    /\ to_stop # <<>>
    /\ LET b == Head(to_stop) IN
       IF ~InQueue(running_queue, b)
       THEN /\ to_stop' = Tail(to_stop)
            /\ UNCHANGED <<app_lock, app_pc, app_out, in_run, app_brick, stopping, is_running,
                           start_plan, start_log, stop_plan, stop_log>>
       ELSE IF brick_sig[b] = "bad_stop"
       THEN /\ to_stop' = <<>>
            /\ Release
            /\ Return(t, "TypeError")
            /\ UNCHANGED <<stopping, is_running>>
       ELSE \E hook \in Hooks :
            IF hook = "reenters"
            THEN /\ Reenter(t)
                 /\ UNCHANGED <<app_out, in_run, app_brick, to_stop, stopping, is_running,
                                start_plan, start_log, stop_plan, stop_log>>
            ELSE /\ to_stop' = Tail(to_stop)
                 /\ stop_log' = Append(stop_log, b)
                 /\ is_running' = [is_running EXCEPT ![b] = FALSE]
                 /\ stopping' = b
                 /\ UNCHANGED <<app_lock, app_pc, app_out, in_run, app_brick, start_plan,
                                start_log, stop_plan>>
    /\ UNCHANGED <<brick_sig, brick_kind, waiting_queue, running_queue, worker,
                   execute_calls>>
    /\ UNCHANGED notAppVars

\* _stop: thread.join(timeout=5) returns, the thread having ended or being
\* still inside the user's method after 5 s; the brick leaves the running queue
brick_join(t) ==
    /\ app_pc[t] = "stopping"
    /\ stopping # 0
    /\ worker[stopping] \notin {"spawned", "tested"}
    /\ worker' = [worker EXCEPT ![stopping] = "none"]
    /\ running_queue' = Removed(running_queue, stopping)
    /\ stopping' = 0
    /\ UNCHANGED <<brick_sig, brick_kind, waiting_queue, app_lock, app_pc, app_brick, app_out,
                   in_run, to_stop, is_running, execute_calls, start_plan, start_log,
                   stop_plan, stop_log>>
    /\ UNCHANGED notAppVars

\* _stop_all_bricks / stop_brick: the lock is released and the call returns
stop_end(t) ==
    /\ app_pc[t] = "stopping"
    /\ stopping = 0
    /\ to_stop = <<>>
    /\ Release
    /\ Return(t, "none")
    /\ UNCHANGED <<brick_sig, brick_kind, waiting_queue, running_queue, to_stop,
                   stopping, worker, is_running, execute_calls>>
    /\ UNCHANGED notAppVars

\* a runner that calls the method without looking at the Event
TestedNever(b) == TRUE
\* _method_runner: brick_is_running.is_set()
Tested(b) == is_running[b]

\* _method_runner: the test of the Event, `if brick_is_running.is_set()` or
\* `while brick_is_running.is_set()`; the thread ends when it is cleared
worker_check(b) ==
    /\ worker[b] = "spawned"
    /\ worker' = [worker EXCEPT ![b] = IF Tested(b) THEN "tested" ELSE "ended"]
    /\ UNCHANGED <<brick_sig, brick_kind, waiting_queue, running_queue, app_lock, app_pc,
                   app_brick, app_out, in_run, to_stop, stopping, is_running, execute_calls,
                   start_plan, start_log, stop_plan, stop_log>>
    /\ UNCHANGED notAppVars

\* _method_runner: method(), after a test that found the Event set; the
\* thread holds no lock between the test and the call
worker_invoke(b) ==
    /\ worker[b] = "tested"
    /\ worker' = [worker EXCEPT ![b] = "invoking"]
    /\ execute_calls' =
           IF brick_kind[b] = "execute" /\ execute_calls[b] < 2
           THEN [execute_calls EXCEPT ![b] = @ + 1] ELSE execute_calls
    /\ UNCHANGED <<brick_sig, brick_kind, waiting_queue, running_queue, app_lock, app_pc,
                   app_brick, app_out, in_run, to_stop, stopping, is_running, start_plan,
                   start_log, stop_plan, stop_log>>
    /\ UNCHANGED notAppVars

\* _method_runner: the method returns or raises.  After execute, and after
\* an exception, the thread ends; a loop method that returned is called again
\* if the Event is still set
worker_return(b) ==
    /\ worker[b] = "invoking"
    /\ \E raises \in BOOLEAN :
        worker' = [worker EXCEPT ![b] =
                      IF brick_kind[b] = "execute" \/ raises THEN "ended" ELSE "spawned"]
    /\ UNCHANGED <<brick_sig, brick_kind, waiting_queue, running_queue, app_lock, app_pc,
                   app_brick, app_out, in_run, to_stop, stopping, is_running, execute_calls,
                   start_plan, start_log, stop_plan, stop_log>>
    /\ UNCHANGED notAppVars

\* ============ AsyncRateLimiter (app_internal/pipeline/limiter.py) ==========
\* Tasks of one event loop call wait(); the clock is time.monotonic(), in
\* ticks, and 1/calls_per_second is a whole number of ticks.
Waiters == 1..MaxWaiters

\* the state after AsyncRateLimiter(calls_per_second)
LimiterNew(interval) ==
    /\ min_interval = interval
    /\ last_call_time = 0
    /\ lim_lock = 0
    /\ lim_pc = [k \in Waiters |-> "idle"]
    /\ wake_at = [k \in Waiters |-> 0]
    /\ now = 0
    /\ completions = <<>>

\* wait: wait_time = self._min_interval - (current_time - self._last_call_time)
WaitTime == min_interval - (now - last_call_time)

\* a sleep that may return at once
AwakeAnyTime(k) == TRUE
\* asyncio.sleep(wait_time) returns once wait_time has gone by
Awake(k) == now >= wake_at[k]

\* wait: the lock is acquired, the clock is read and wait_time computed;
\* with nothing to wait for, the clock is read again at line 27
wait_enter(k) ==
    /\ lim_pc[k] = "idle"
    /\ lim_lock = 0
    /\ lim_lock' = k
    /\ wake_at' = [wake_at EXCEPT ![k] = WaitTime]
    /\ lim_pc' = [lim_pc EXCEPT ![k] = IF WaitTime > 0 THEN "to_sleep" ELSE "to_stamp"]
    /\ UNCHANGED <<min_interval, last_call_time, now, completions>>
    /\ UNCHANGED notLimVars

\* wait: await asyncio.sleep(wait_time) begins, at the time it is then
wait_sleep(k) ==
    /\ lim_pc[k] = "to_sleep"
    /\ wake_at' = [wake_at EXCEPT ![k] = now + wake_at[k]]
    /\ lim_pc' = [lim_pc EXCEPT ![k] = "sleeping"]
    /\ UNCHANGED <<min_interval, last_call_time, lim_lock, now, completions>>
    /\ UNCHANGED notLimVars

\* wait: the sleep is over, or there was none: self._last_call_time =
\* time.monotonic(), the lock is released and wait() returns
wait_stamp(k) ==
    /\ \/ lim_pc[k] = "to_stamp"
       \/ lim_pc[k] = "sleeping" /\ Awake(k)
    /\ last_call_time' = now
    /\ completions' = Append(completions, now)
    /\ lim_lock' = 0
    /\ lim_pc' = [lim_pc EXCEPT ![k] = "idle"]
    /\ UNCHANGED <<min_interval, wake_at, now>>
    /\ UNCHANGED notLimVars

\* the clock goes on
tick ==
    /\ now < MaxTime
    /\ now' = now + 1
    /\ UNCHANGED <<min_interval, last_call_time, lim_lock, lim_pc, wake_at, completions>>
    /\ UNCHANGED notLimVars

\* ============================ specifications ==============================
\* the pipelines add_source/add_processor/add_sink build and start() runs
Topologies == {<<"source", "sink">>, <<"source", "processor", "sink">>}

Built ==
    /\ steps \in Topologies
    /\ is_sync \in [Stages -> BOOLEAN]
    /\ \A i \in Stages : i > Len(steps) => ~is_sync[i]

\* the module as shipped, from Pipeline() on
PipelineNew ==
    /\ Constructed
    /\ log_bound = FALSE
    /\ steps = <<>>
    /\ is_sync = [i \in Stages |-> FALSE]
    /\ runs_left = MaxRuns
    /\ source_len = 0

\* the utilities of app_utils, constructed and left alone
\* the bricks of the idle controller
PlainBricks == [b \in Bricks |-> "ok"]
LoopBricks == [b \in Bricks |-> "loop"]
UtilIdle ==
    /\ BufferNew(1, 1, 2)
    /\ BridgeNew
    /\ AppNew(PlainBricks, LoopBricks)
    /\ LimiterNew(1)

InitApi == PipelineNew /\ UtilIdle

\* a built pipeline whose source holds at most n items and which start() may
\* run r times, in the module as shipped and in the module with `log` bound
InitRun(n, r) ==
    /\ Constructed
    /\ log_bound \in BOOLEAN
    /\ UtilIdle
    /\ Built
    /\ runs_left = r
    /\ source_len \in 0..n

Init == InitRun(MaxItems, 1)

InitStop == InitRun(MaxStopItems, 1)

Caller ==
    \/ start
    \/ start_return

Builder ==
    \/ add_source
    \/ add_processor
    \/ add_sink

Runner ==
    \/ loop_thread_run
    \/ main_start
    \/ main_gather_done
    \/ main_stop_task
    \/ main_stop_call
    \/ loop_complete
    \/ loop_close
    \/ source_produce
    \/ source_get
    \/ \E i \in Stages : task_put(i)
    \/ \E i \in Stages : task_fin(i)
    \/ \E i \in Stages : task_get(i)
    \/ \E i \in Stages : processor_process(i)
    \/ \E i \in Stages : sink_consume(i)
    \/ producer_check
    \/ producer_produce
    \/ producer_put
    \/ producer_put_shutdown
    \/ producer_exit

\* stop() and what it sets off when no timeout expires
Stopper ==
    \/ stop
    \/ stop_result
    \/ stop_join
    \/ stop_co_start
    \/ stop_co_wake
    \/ loop_stop
    \/ loop_abandon

\* the timeouts of stop() expire
Timeouts ==
    \/ stop_timeout
    \/ stop_co_timeout
    \/ loop_cancel

\* the shipped module: no step gets as far as its adapter
NextApi ==
    \/ Builder
    \/ Caller
    \/ loop_thread_run
    \/ loop_complete
    \/ loop_close
    \/ stop
    \/ stop_result
    \/ stop_join
    \/ stop_co_start
    \/ loop_abandon

\* a run nobody stops
NextFlow == Caller \/ Runner

\* every thread but the one inside the user's blocking produce()
RunnerButProduce ==
    \/ loop_thread_run
    \/ main_start
    \/ main_gather_done
    \/ main_stop_task
    \/ main_stop_call
    \/ loop_complete
    \/ loop_close
    \/ source_produce
    \/ source_get
    \/ \E i \in Stages : task_put(i)
    \/ \E i \in Stages : task_fin(i)
    \/ \E i \in Stages : task_get(i)
    \/ \E i \in Stages : processor_process(i)
    \/ \E i \in Stages : sink_consume(i)
    \/ producer_check
    \/ producer_put
    \/ producer_put_shutdown
    \/ producer_exit

\* a run stop() ends before any of its timeouts expires
NextStop == Caller \/ Runner \/ Stopper \/ \E i \in Stages : orphan_return(i)

Next == Caller \/ Runner \/ Stopper \/ Timeouts \/ \E i \in Stages : orphan_return(i)

SpecApi == InitApi /\ [][NextApi]_vars

SpecFlow == Init /\ [][NextFlow]_vars

Spec == InitStop /\ [][Next]_vars

SpecStop == InitStop /\ [][NextStop]_vars

\* runs that stop() ends and start() follows, the source holding enough
\* items for the later runs and at most MaxSyncRestart stages synchronous
InitRestart ==
    /\ InitRun(MaxStopItems, MaxRuns)
    /\ source_len = MaxStopItems
    /\ Cardinality({i \in Stages : is_sync[i]}) <= MaxSyncRestart

SpecRestart == InitRestart /\ [][Next]_vars

\* the event loop runs every callback that is ready, the operating system
\* schedules every thread, and every user call returns or raises
LiveFlow == SpecFlow /\ WF_vars(NextFlow)

\* the same, but the user's blocking produce() need not return
LiveStop ==
    SpecStop /\ WF_vars(Caller \/ RunnerButProduce \/ Stopper \/ \E i \in Stages : orphan_return(i))

\* the same, and the user's produce() returns whenever it is called
LiveProducer == LiveStop /\ WF_vars(producer_produce)

\* a buffer of every accepted geometry, its producer and its consumer
InitBuffer ==
    /\ PipelineNew
    /\ BridgeNew
    /\ AppNew(PlainBricks, LoopBricks)
    /\ LimiterNew(1)
    /\ \E w \in 1..MaxWindow, s \in 1..MaxWindow, c \in 1..MaxCapacity :
        ValidParams(w, s, c) /\ BufferNew(w, s, c)

NextBuffer ==
    \/ push
    \/ pull
    \/ pull_wake
    \/ pull_timeout
    \/ flush

SpecBuffer == InitBuffer /\ [][NextBuffer]_vars

\* the same, and a notified consumer is scheduled: it reacquires the lock of
\* the condition and evaluates has_data again
LiveBuffer == SpecBuffer /\ WF_vars(pull_wake)

\* a ClientServer, its callers, its peer and its threads
InitRpc ==
    /\ PipelineNew
    /\ BufferNew(1, 1, 2)
    /\ BridgeNew
    /\ AppNew(PlainBricks, LoopBricks)
    /\ LimiterNew(1)

CallSteps ==
    \E c \in Calls :
        \/ call_insert(c)
        \/ call_send(c)
        \/ call_receive(c)
        \/ call_expire(c)
        \/ call_cancel(c)
        \/ provide_install(c)

ReaderSteps ==
    \/ read_response
    \/ read_request
    \/ read_eof
    \/ conn_reset
    \/ connect

ReregSteps ==
    \/ rereg_start
    \/ rereg_call
    \/ rereg_end

NextRpc ==
    \/ \E c \in Calls : call_draw(c)
    \/ CallSteps
    \/ ReaderSteps
    \/ ReregSteps
    \/ peer_respond
    \/ peer_request
    \/ peer_drop

SpecRpc == InitRpc /\ [][NextRpc]_vars

\* the threads of the ClientServer keep running: the connection manager, the
\* re-registration thread and the calls it makes (a call that gets no
\* response times out).  Nothing is asked of the peer or of the user threads.
LiveRpc ==
    /\ SpecRpc
    /\ WF_vars(ReaderSteps)
    /\ WF_vars(ReregSteps)
    /\ WF_vars(call_insert(RegCall) \/ call_send(RegCall) \/ call_receive(RegCall)
                   \/ call_expire(RegCall) \/ call_cancel(RegCall))

\* the same with other callers whose calls come and go, and a peer that stays
NextMsgid ==
    \/ \E c \in Calls : call_draw(c)
    \/ \E c \in Calls : call_insert(c) \/ call_send(c) \/ call_receive(c)
    \/ calls_elapse
    \/ read_response
    \/ peer_respond

SpecMsgid == InitRpc /\ [][NextMsgid]_vars

\* a ClientServer, its callers, and a peer that stays and sends, besides its
\* responses and requests, frames that are not well formed
NextGarble ==
    \/ \E c \in UserCalls : call_draw(c)
    \/ \E c \in UserCalls :
          \/ call_insert(c) \/ call_send(c) \/ call_receive(c)
          \/ call_expire(c) \/ call_cancel(c) \/ provide_install(c)
    \/ peer_respond
    \/ peer_request
    \/ peer_garble
    \/ read_response
    \/ read_request
    \/ read_malformed

SpecGarble == InitRpc /\ [][NextGarble]_vars

\* a ClientServer to which some of the methods were provided, with handlers
\* of every sort, a peer that sends requests and notifications, and a
\* connection that may be closed or go bad
InitServe ==
    /\ PipelineNew
    /\ BufferNew(1, 1, 2)
    /\ AppNew(PlainBricks, LoopBricks)
    /\ LimiterNew(1)
    /\ \E provided \in [Methods -> {0, 1}] :
        ClientServerNew(provided, HandlerSorts, Methods, MaxNotes)

NextServe ==
    \/ peer_request
    \/ peer_notify
    \/ peer_drop
    \/ recv_fault
    \/ read_request
    \/ read_notification
    \/ read_error
    \/ read_eof
    \/ conn_reset
    \/ connect

SpecServe == InitServe /\ [][NextServe]_vars

\* an AppController, bricks of every description, the threads that call it
\* and the worker threads
InitApp ==
    /\ PipelineNew
    /\ BufferNew(1, 1, 2)
    /\ BridgeNew
    /\ LimiterNew(1)
    /\ \E sort \in [Bricks -> BrickSorts] :
        AppNew([b \in Bricks |-> sort[b][1]], [b \in Bricks |-> sort[b][2]])

NextApp ==
    \/ \E t \in AppThreads, b \in Bricks :
          register(t, b) \/ unregister(t, b) \/ start_brick(t, b) \/ stop_brick(t, b)
    \/ \E t \in AppThreads :
          \/ start_brick_start(t)
          \/ start_bricks(t) \/ start_next(t) \/ start_end(t)
          \/ user_loop_exit(t)
          \/ stop_bricks(t) \/ stop_next(t) \/ brick_join(t) \/ stop_end(t)
    \/ \E b \in Bricks : worker_check(b) \/ worker_invoke(b) \/ worker_return(b)

SpecApp == InitApp /\ [][NextApp]_vars

\* an AsyncRateLimiter of every rate, the tasks that call wait() and the clock
InitLimiter ==
    /\ PipelineNew
    /\ BufferNew(1, 1, 2)
    /\ BridgeNew
    /\ AppNew(PlainBricks, LoopBricks)
    /\ \E i \in 1..MaxInterval : LimiterNew(i)

NextLimiter ==
    \/ \E k \in Waiters : wait_enter(k) \/ wait_sleep(k) \/ wait_stamp(k)
    \/ tick

SpecLimiter == InitLimiter /\ [][NextLimiter]_vars

\* ================================ claims ==================================
\* what stage i's task emits once it has handled its whole input: the
\* source emits what produce() returned, a processor emits Process(x) for
\* every input x its process() did not drop
RECURSIVE StageOut(_)
StageOut(i) ==
    IF i = 1 THEN produced
    ELSE LET kept == SelectSeq(StageOut(i - 1), LAMBDA x : x \notin dropped[i])
         IN [k \in 1..Len(kept) |-> Process(kept[k])]

\* the run ended by end of stream: every stage task left its loop on the
\* terminal value or the sentinel, and the cleanup is over
EndOfStream == main = "done" /\ N >= 2 /\ \A i \in 1..N : task[i] = "done"

Ahead == Len(produced) - Len(consumed)

SourceReturnedNone == gather /\ task[1] \in {"fin", "done"} /\ 1 \notin user_raised

Downstream == 2..N

StopReturned == caller = "idle" /\ stop_co # "none"

\* the producer thread is inside the user's produce()
ProduceBlocked == Blocking /\ producer_thread = "produce"

InFlight(i) ==
    IF i = 1
    THEN (IF Blocking
          THEN (IF producer_thread = "produce" THEN 1 ELSE 0)
          ELSE (IF task[1] = "call" THEN 1 ELSE 0))
    ELSE (IF task[i] = "call" THEN 1 ELSE 0) + orphans[i]

ValidPipeline(s) ==
    /\ Len(s) >= 2
    /\ s[1] = "source"
    /\ s[Len(s)] = "sink"
    /\ \A k \in 2..(Len(s) - 1) : s[k] = "processor"

\* C9 as stated: an add_* call that raises leaves the stage list as it was,
\* and a start() that is not a no-op starts a run only for a list made of one
\* source, then processors, then one sink, and raises for every other list
C9_Original ==
    [][/\ (Builder /\ raised' # "none") => steps' = steps
       /\ (start /\ ~running /\ ValidPipeline(steps)) => raised' = "none"
       /\ (start /\ ~running /\ ~ValidPipeline(steps)) => (raised' = "ValueError" /\ thread' = thread)]_vars

\* C10: while _running is set, which it is from the return of a successful
\* start() to the end of the stop() that ends the run, add_source,
\* add_processor and add_sink raise RuntimeError and leave the stage list as
\* it was, and start() starts no thread and changes nothing else
C10_FrozenWhileRunning ==
    [][running =>
          /\ Builder => (raised' = "RuntimeError" /\ steps' = steps /\ is_sync' = is_sync)
          /\ start => UNCHANGED <<steps, thread, loop_thread, loop, runs_left, caller, loopVars, taskVars>>]_vars

\* an add_* call was refused during a run
C10_Witness == running /\ ThreadAlive /\ raised = "RuntimeError" /\ Len(steps) >= 2

\* ---- SlidingWindowBuffer ----
\* C11: after any sequence of push, pull (successful or timed out) and flush
\* calls, 0 <= data_count <= C, 0 <= new_data_count <= data_count, and
\* read_index and write_index are in [0, C)
C11_BufferInvariants ==
    /\ 0 <= data_count /\ data_count <= capacity
    /\ 0 <= new_data_count /\ new_data_count <= data_count
    /\ read_index \in 0..(capacity - 1)
    /\ write_index \in 0..(capacity - 1)

\* the ring is full and has wrapped, after a pull that timed out
C11_Witness ==
    /\ data_count = capacity
    /\ read_index > 0
    /\ write_index = read_index
    /\ pull_ret = "empty"

\* C12: a push that would make data_count exceed C returns False and changes
\* nothing: indices, counters, stored items and the recorded element
\* type/shape are as before, so a rejected first push does not record a type
C12_Original ==
    [][(push /\ push_ret' = "False") =>
         UNCHANGED <<read_index, write_index, data_count, new_data_count, buffer, dtype>>]_vars

\* a step that is the return of a pull with a window
PullStep == pull \/ pull_wake \/ pull_timeout
ReturnsWindow == pull_state' = "idle" /\ pull_ret' = "window"

\* C13: pull returns a window of W items only when data_count >= W and
\* new_data_count >= S at the moment it takes it, and then advances
\* read_index by S modulo C and decrements both counters by S; otherwise it
\* returns no window and leaves indices and counters unchanged; has_data()
\* is true exactly when that condition holds
C13_PullReadiness ==
    [][/\ has_data <=> (data_count >= window_size /\ new_data_count >= slide_amount)
       /\ (PullStep /\ ReturnsWindow) =>
             /\ data_count >= window_size /\ new_data_count >= slide_amount
             /\ Len(window') = window_size
             /\ read_index' = (read_index + slide_amount) % capacity
             /\ data_count' = data_count - slide_amount
             /\ new_data_count' = new_data_count - slide_amount
             /\ write_index' = write_index
       /\ (PullStep /\ ~ReturnsWindow) =>
             UNCHANGED <<read_index, write_index, data_count, new_data_count>>]_vars

\* two windows were returned and the read index has wrapped past the end
C13_Witness ==
    /\ pull_ret = "window"
    /\ chain = 2
    /\ read_index < slide_amount
    /\ push_ret = "False"

\* C14: of two consecutive successful pulls with no flush between them, the
\* second window begins exactly S items after the first in push order: for
\* S < W its first W-S items are the last W-S items of the first, for S = W
\* the windows share no item and no pushed item is skipped
C14_WindowOverlap ==
    chain = 2 =>
        /\ Len(window) = window_size /\ Len(prev_window) = window_size
        /\ \A k \in 1..(window_size - 1) : prev_window[k + 1] = prev_window[k] + 1
        /\ \A k \in 1..window_size : window[k] = prev_window[k] + slide_amount
        /\ \A k \in 1..(window_size - slide_amount) : window[k] = prev_window[k + slide_amount]
        /\ slide_amount = window_size =>
              /\ \A j, k \in 1..window_size : window[j] # prev_window[k]
              /\ window[1] = prev_window[window_size] + 1

\* a sliding second window that wraps around the end of the ring
C14_Witness ==
    /\ chain = 2
    /\ pull_ret = "window"
    /\ slide_amount < window_size
    /\ \E k1, k2 \in Cells :
          k1 < k2 /\ buffer[k2] = window[1] /\ buffer[k1] = window[window_size]

\* what call() returns or raises for what its continuation put on resp_queue
Outcome(c) == IF resp_queue[c] = "result" THEN "result" ELSE "ValueError"

\* C15: the continuations on_result/on_error of a request are invoked at most
\* once in all, whatever the order of responses, timeouts and disconnects;
\* when a response is handled while call() waits and the peer has not gone
\* away during the call, exactly one is invoked and call() returns the result
\* it was given, or raises the error it was given.
C15_Correlation ==
    \A c \in Calls :
        /\ invoked[c] <= 1
        /\ (in_time[c] /\ ~conn_lost[c]) =>
               /\ invoked[c] = 1
               /\ resp_queue[c] \in {"result", "error"}
               /\ call_pc[c] \in {"done", "install"} => call_out[c] = Outcome(c)

\* one call was answered in time with an error, after which the same answer
\* came again; the other call timed out, and its answer came late
C15_Witness ==
    \E c \in UserCalls, d \in UserCalls :
        /\ in_time[c] /\ ~conn_lost[c]
        /\ call_pc[c] = "done" /\ call_out[c] = "ValueError"
        /\ call_out[d] = "TimeoutError" /\ invoked[d] = 0
        /\ wire # <<>> /\ Head(wire).type = "response" /\ Head(wire).msgid = call_msgid[d]
        /\ reader = "read" /\ conn = "up"

\* the call of slot c has drawn its msgid and has not yet removed it
Pending(c) == call_pc[c] \in {"drawn", "send", "wait", "expired"}

\* C16: two calls pending at the same time never hold the same msgid, also
\* when the counter has wrapped around and when threads call concurrently,
\* and a call that waits for its response still has its callbacks entry.
C16_Original ==
    /\ \A c \in Calls, d \in Calls :
           (c # d /\ Pending(c) /\ Pending(d)) => call_msgid[c] # call_msgid[d]
    /\ \A c \in Calls :
           (call_pc[c] \in {"send", "wait"} /\ resp_queue[c] = "empty")
               => <<call_msgid[c], c>> \in callbacks

\* C17 as stated: a call that timed out has left no entry under its msgid
\* and, the connection having been open all through the call, the
\* notification "$/cancelRequest" with its msgid has been sent.
C17_Original ==
    \A c \in Calls :
        call_out[c] = "TimeoutError" =>
            /\ call_msgid[c] \notin Keys
            /\ ~conn_lost[c] => call_msgid[c] \in cancels

\* C17: a call that timed out has raised TimeoutError and left no entry
\* under its msgid; the notification "$/cancelRequest" with its msgid has
\* been sent if the connection was open all through the call and the entry
\* was still in callbacks when call() removed it, and has not been sent if
\* a late response or a disconnect had taken the entry before.
C17_Timeout ==
    \A c \in Calls :
        call_out[c] = "TimeoutError" =>
            /\ call_msgid[c] \notin Keys
            /\ (invoked[c] = 0 /\ ~conn_lost[c]) => call_msgid[c] \in cancels
            /\ invoked[c] = 1 => call_msgid[c] \notin cancels

\* a call timed out on an open connection and its cancellation was sent,
\* and the response comes late
C17_Witness ==
    \E c \in UserCalls :
        /\ call_out[c] = "TimeoutError" /\ ~conn_lost[c] /\ invoked[c] = 0
        /\ call_msgid[c] \in cancels
        /\ wire # <<>> /\ Head(wire).type = "response" /\ Head(wire).msgid = call_msgid[c]

\* C18: when the read loop ends on a lost connection, callbacks is emptied
\* and every call that had an entry there finds an answer on its queue; the
\* call woken by that answer raises a connection error, and nothing else.
C18_Original ==
    [][/\ read_eof =>
            /\ callbacks' = {}
            /\ \A e \in callbacks : resp_queue'[e[2]] # "empty"
       /\ \A c \in Calls :
            (call_receive(c) /\ resp_queue[c] = "conn_error")
                => call_out'[c] = "ConnectionError"]_vars

C20_IdempotentRegister ==
    [][\A c \in UserCalls :
         /\ (/\ read_response
             /\ Head(wire).msgid = call_msgid[c]
             /\ <<call_msgid[c], c>> \in callbacks
             /\ resp_queue[c] = "empty"
             /\ Head(wire).error = ROUTE_ALREADY_EXISTS_ERR)
                => resp_queue'[c] = "result"
         /\ (call_receive(c) /\ resp_queue[c] = "result" /\ call_what[c].handler # 0)
                => (call_out'[c] = "result" /\ call_pc'[c] = "install")
         /\ provide_install(c)
                => handlers'[call_what[c].method] = call_what[c].handler]_vars

\* provide(m, h1) has returned and installed h1; provide(m, h2), made on the
\* same connection after it, has returned and h2 is the handler of m
C20_Witness ==
    \E m \in Methods :
        /\ call_what[1] = [method |-> m, handler |-> 1]
        /\ call_what[2] = [method |-> m, handler |-> 2]
        /\ call_pc[1] = "done" /\ call_out[1] = "result"
        /\ call_pc[2] = "done" /\ call_out[2] = "result"
        /\ in_time[2] /\ ~conn_lost[2]
        /\ handlers[m] = 2

\* C23: whatever register, unregister, start_brick, start_bricks, stop_brick
\* and stop_bricks the threads run and however they interleave, the waiting
\* queue holds no brick twice and no brick is in the waiting queue and in
\* the running queue at once.
C23_Original ==
    /\ \A i, j \in 1..Len(waiting_queue) : waiting_queue[i] = waiting_queue[j] => i = j
    /\ \A b \in Bricks : ~(InQueue(waiting_queue, b) /\ InQueue(running_queue, b))

\* C22: run() never raises and always ends with the full shutdown: whatever
\* the user loop and the hooks of the bricks do, a run() comes to its end
\* only out of _stop_all_bricks, without an exception, and with stop
\* attempted for every brick that was running, in the reverse of the order
\* they were started in.
C22_Original ==
    [][\A t \in AppThreads :
         (in_run[t] /\ ~in_run'[t]) =>
             /\ app_out'[t] = "none"
             /\ app_pc[t] = "stopping"
             /\ stop_log = Reversed(stop_plan)]_vars

C25_Original ==
    [][\A t \in AppThreads :
         (/\ start_brick_start(t)
          /\ brick_sig[app_brick[t]] \in {"bad_start", "bad_method"}
          /\ ~InQueue(running_queue, app_brick[t]))
             => /\ app_out'[t] # "none"
                /\ worker'[app_brick[t]] = worker[app_brick[t]]
                /\ ~InQueue(running_queue', app_brick[t])]_vars

\* C26: start_bricks has started the waiting bricks in the order they were
\* registered in when it ends, and the waiting queue is empty; stop_bricks
\* has stopped the running bricks in the reverse of the order they were
\* started in when it ends, and the running queue is empty.
C26_Original ==
    [][\A t \in AppThreads :
         /\ start_end(t) => (start_log = start_plan /\ waiting_queue' = <<>>)
         /\ (app_pc[t] = "stopping" /\ app_brick[t] = 0 /\ app_pc'[t] = "idle")
                => (stop_log = Reversed(stop_plan) /\ running_queue' = <<>>)]_vars

\* C29: _app_lock is not held while the worker threads of a brick are
\* joined, and it is not held while a start or stop hook runs: no thread
\* whose hook calls back into the controller comes to wait for the lock it
\* holds itself.
C29_Original ==
    /\ stopping # 0 => app_lock = 0
    /\ \A t \in AppThreads : ~(app_pc[t] = "reentered" /\ app_lock = t)

\* C27: the times at which wait() calls complete, whichever tasks make them
\* and however they overlap, are at least 1/calls_per_second apart, so that
\* K calls in a row complete over at least (K-1)/calls_per_second; the time
\* wait() records as the last call's is read after the sleep, at completion.
C27_Spacing ==
    /\ \A i, j \in 1..Len(completions) :
           i < j => completions[j] - completions[i] >= (j - i) * min_interval
    /\ completions # <<>> => last_call_time = completions[Len(completions)]
    /\ \A k \in Waiters : lim_pc[k] # "idle" => lim_lock = k

\* three wait() calls have completed at the longest interval, each after a
\* sleep, and a fourth call is asleep
C27_Witness ==
    /\ min_interval = MaxInterval
    /\ Len(completions) >= 3
    /\ completions[3] - completions[1] = 2 * min_interval
    /\ \E k \in Waiters : lim_pc[k] = "sleeping" /\ wake_at[k] > now

\* C21: for the last request the read loop handled, one response frame has
\* gone out, with the msgid of the request: with the result set and no
\* error when the handler returned; with error code FUNCTION_NOT_FOUND_ERR
\* when the method has no handler; with MALFORMED_CALL_ERR when the handler
\* raised TypeError or ValueError; with GENERIC_ERR when it raised anything
\* else.  For a notification the handler is called and nothing goes out.
C21_Original ==
    /\ dispatched.type = "request" =>
        /\ Len(sent) = 1
        /\ sent[1].type = "response"
        /\ sent[1].msgid = dispatched.msgid
        /\ (dispatched.hit /\ dispatched.how \in {"returns", "unpackable"})
               => (sent[1].error = 0 /\ sent[1].result # "none")
        /\ ~dispatched.hit
               => (sent[1].error = FUNCTION_NOT_FOUND_ERR /\ sent[1].result = "none")
        /\ (dispatched.hit /\ dispatched.how \in {"TypeError", "ValueError"})
               => (sent[1].error = MALFORMED_CALL_ERR /\ sent[1].result = "none")
        /\ (dispatched.hit /\ dispatched.how \in {"NameError", "Exception"})
               => (sent[1].error = GENERIC_ERR /\ sent[1].result = "none")
    /\ dispatched.type = "notification" => sent = <<>>

\* C30: when the connection is lost, by the peer closing it or by a read
\* error, the step the read loop takes on it, with nothing left to read,
\* ends the loop, and the connection manager goes on to reconnect; requests
\* and notifications are dispatched only by the read loop of a connection
\* the manager holds to be up.
C30_Original ==
    /\ [][(/\ reader = "read"
           /\ conn \in {"broken", "faulty"}
           /\ wire = <<>>
           /\ (read_eof \/ read_error))
              => reader' = "sleep"]_vars
    /\ [][(read_request \/ read_notification) => (is_connected_flag /\ reader = "read")]_vars

\* C28: when the event-loop thread of a run has ended, whether the run came
\* to its end by itself or was ended by stop(), adapter.stop() has been
\* entered for every stage of the pipeline.
C28_Original ==
    (thread = "dead" /\ main # "none") => stopped = 1..N

\* the cells of the unread region: data_count cells starting at read_index
Unread == {(read_index + j) % capacity : j \in 0..(data_count - 1)}

\* C34: in every reachable state write_index = (read_index + data_count)
\* mod C; a successful push advances write_index by exactly the batch length
\* (around the ring), a successful pull advances read_index by exactly S, and
\* a push never overwrites an item of the unread region of data_count items
\* starting at read_index
C34_RingIndices ==
    [][/\ write_index = (read_index + data_count) % capacity
       /\ write_index' = (read_index' + data_count') % capacity
       /\ (push /\ push_ret' = "True") =>
             /\ write_index' = (write_index + (next_value' - next_value)) % capacity
             /\ data_count' = data_count + (next_value' - next_value)
       /\ (PullStep /\ ReturnsWindow) =>
             read_index' = (read_index + slide_amount) % capacity
       /\ push => \A k \in Unread : buffer'[k] = buffer[k]]_vars

\* a batch was written around the end of the ring, before unread items that
\* a pull has left there
C34_Witness ==
    /\ push_ret = "True"
    /\ pull_ret = "window"
    /\ data_count > 0
    /\ 0 < write_index /\ write_index < read_index

\* C40: in every reachable state new_data_count equals data_count, because
\* push, pull and flush change both counters by the same amount; has_data,
\* the readiness condition of pull, is therefore data_count >= W
C40_CountersEqual ==
    /\ new_data_count = data_count
    /\ has_data <=> data_count >= window_size

\* a window was pulled, the buffer was flushed, and pushes have made a window
\* ready again
C40_Witness ==
    /\ pull_ret = "window"
    /\ chain = 0
    /\ data_count >= window_size
    /\ next_value > data_count + slide_amount

\* the consumer is blocked in pull() without timeout and a window is ready
BlockedReady == pull_state = "waiting" /\ ~pull_timed /\ has_data

\* C35 as stated: a consumer blocked in pull() without timeout returns a
\* window once pushes have made data_count >= W and new_data_count >= S,
\* under every interleaving of push, pull and flush
C35_Original == BlockedReady ~> (pull_state = "idle")

\* C35: no wake-up is lost: the push that makes the buffer ready notifies the
\* waiting consumer, and a consumer blocked in pull() without timeout while
\* a window is ready has been notified; it then returns a window, unless a
\* flush empties the buffer before the consumer has run again
C35_NoLostWakeup ==
    /\ [][(push /\ pull_state = "waiting" /\ ~has_data /\ has_data') => notified']_vars
    /\ []((pull_state = "waiting" /\ has_data) => notified)
    /\ BlockedReady ~> (pull_state = "idle" \/ data_count = 0)

\* the consumer, which has taken a window before, is blocked without timeout
\* and a push has just made the next window ready
C35_Witness ==
    /\ BlockedReady
    /\ notified
    /\ push_ret = "True"
    /\ chain = 1

\* the call of slot c has put its entry into callbacks and has not yet come
\* out of call()
Waiting(c) == call_pc[c] \in {"send", "wait", "expired"}

\* C38: when call() has returned or raised, on any path (result, remote
\* error, timeout, send failure, disconnect), its msgid is not a key of
\* callbacks; in every reachable state every entry of callbacks belongs to a
\* call that is waiting for its outcome under that msgid
C38_OnlyWaiting ==
    /\ \A c \in Calls :
          call_pc[c] \in {"done", "install"} => call_msgid[c] \notin Keys
    /\ \A e \in callbacks : Waiting(e[2]) /\ call_msgid[e[2]] = e[1]

\* one call has timed out, removed its entry itself and sent its
\* cancellation, while another call waits with its entry in callbacks
C38_Witness ==
    \E c \in Calls, w \in Calls :
        /\ call_pc[c] = "done" /\ call_out[c] = "TimeoutError" /\ invoked[c] = 0
        /\ call_msgid[c] \in cancels
        /\ call_pc[w] = "wait" /\ <<call_msgid[w], w>> \in callbacks

\* C31: a response frame whose msgid has no entry in callbacks is dropped:
\* no continuation is invoked, no call is woken or handed its result, and
\* callbacks and handlers are unchanged; a response is put on the queue of a
\* call only under that call's own msgid, which is the msgid of no other
\* call, so that a later call is never completed by the response to an
\* earlier call that timed out
C31_UnknownDropped ==
    [][read_response =>
         LET f == Head(wire) IN
         /\ f.msgid \notin Keys =>
               UNCHANGED <<callbacks, handlers, resp_queue, invoked, call_pc, call_out>>
         /\ \A c \in Calls :
               (resp_queue'[c] # resp_queue[c] \/ invoked'[c] # invoked[c]) =>
                   /\ f.msgid = call_msgid[c]
                   /\ Waiting(c)
                   /\ \A d \in Calls \ {c} :
                         call_out[d] = "TimeoutError" => call_msgid[d] # f.msgid]_vars

\* the response to a call that timed out is the next frame of the read loop,
\* its entry is gone, and a call made after it waits for its own response
C31_Witness ==
    \E c \in Calls, d \in Calls :
        /\ call_pc[c] = "done" /\ call_out[c] = "TimeoutError"
        /\ reader = "read" /\ conn = "up"
        /\ wire # <<>> /\ Head(wire).type = "response"
        /\ Head(wire).msgid = call_msgid[c] /\ call_msgid[c] \notin Keys
        /\ call_pc[d] = "wait" /\ resp_queue[d] = "empty"
        /\ call_msgid[d] = Succ32(call_msgid[c])

\* the read loop has a request or a notification to dispatch and cannot take
\* handlers_lock, which the re-registration thread holds while its call
\* waits for a response
ReaderStalled ==
    /\ reader = "read" /\ conn \in {"up", "broken"}
    /\ wire # <<>> /\ Head(wire).type \in {"request", "notification"}
    /\ handlers_lock
    /\ call_pc[RegCall] = "wait" /\ resp_queue[RegCall] = "empty"

\* C37: the read loop can always dispatch the next decoded frame: it never
\* waits for handlers_lock while the thread that holds the lock waits for a
\* response, which only the read loop can deliver; a request that comes in
\* while the re-registration thread awaits its "$/register" response does
\* not stall the delivery of that response
C37_Original == ~ReaderStalled

\* the last frame the read loop handled was a malformed response under the
\* msgid of call c, and no well-formed response was handled while c waited
Garbled(c) ==
    /\ dispatched.type \in MalformedResponses
    /\ dispatched.msgid = call_msgid[c]
    /\ ~in_time[c]

\* C32: a malformed incoming frame (not an array, wrong array length, wrong
\* element kinds, unknown type tag) is dropped, no continuation being
\* invoked, without ending the read loop and without changing handlers, so
\* that the frames after it are dispatched; a call whose response frame was
\* malformed comes to its end by its timeout
C32_Original ==
    [][/\ read_malformed =>
            /\ reader' = "read" /\ conn' = conn
            /\ handlers' = handlers
            /\ UNCHANGED <<resp_queue, invoked>>
       /\ \A c \in Calls :
            (Garbled(c) /\ call_pc[c] # "done" /\ call_pc'[c] \in {"done", "install"})
                => call_out'[c] = "TimeoutError"]_vars

\* a worker thread of brick b is created only by _start, in the step in
\* which the brick's start() was called and returned, and with its flag set
StartOrder(b) ==
    (worker'[b] = "spawned" /\ worker[b] \notin {"spawned", "invoking"}) =>
        /\ \E t \in AppThreads : start_next(t) \/ start_brick_start(t)
        /\ CallsStartHook(b)
        /\ is_running'[b]

\* the flag of brick b is cleared only by _stop, after the brick's stop() was
\* called, and the join of the worker comes after the clear
StopOrder(b) ==
    /\ (is_running[b] /\ ~is_running'[b]) =>
          /\ \E t \in AppThreads : stop_next(t)
          /\ stop_log' = Append(stop_log, b)
          /\ stopping' = b
          /\ worker'[b] = worker[b]
    /\ (\E t \in AppThreads : brick_join(t) /\ stopping = b) => ~is_running[b]

\* C33 as stated: when a brick is started, its start() has returned before
\* any of its worker threads invokes a loop or execute method; when it is
\* stopped, its stop() is invoked before the flags are cleared and the
\* workers joined; and no invocation of the loop method begins after the
\* flag has been cleared
C33_Original ==
    [][\A b \in Bricks :
         /\ StartOrder(b)
         /\ StopOrder(b)
         /\ (worker_invoke(b) /\ brick_kind[b] = "loop") => is_running[b]]_vars

\* C33: start() has returned before a worker thread of the brick exists;
\* stop() is invoked before the flag is cleared, and the clear comes before
\* the join; a worker invokes the method only after a test that found the
\* flag set, and ends at the first test that finds it cleared, so that an
\* invocation begins after the clear only when the worker's test came
\* before it
C33_StartStopOrder ==
    [][\A b \in Bricks :
         /\ StartOrder(b)
         /\ StopOrder(b)
         /\ worker_invoke(b) => worker[b] = "tested"
         /\ (worker'[b] = "tested" /\ worker[b] # "tested") => (worker_check(b) /\ is_running[b])
         /\ (worker_check(b) /\ ~is_running[b]) => worker'[b] = "ended"]_vars

\* the worker of a loop brick has found the flag set, and _stop has called
\* stop() and cleared the flag before the worker has called the method
C33_Witness ==
    \E b \in Bricks :
        /\ brick_kind[b] = "loop"
        /\ worker[b] = "tested"
        /\ ~is_running[b]
        /\ stopping = b
        /\ stop_log # <<>>

\* a step in which Pipeline.stop() returns: at once, or after the join
StopReturns == (stop /\ caller' = "idle") \/ stop_join

\* C36: whenever Pipeline.stop() returns, the pipeline is in the not-running
\* state, so that start() and add_* are accepted again; also when the
\* pipeline had finished on its own before stop() was called
C36_Original == [][StopReturns => ~running']_vars

====
